---- MODULE Spec2Model ----
(***************************************************************************)
(* Verification model of the MIND platform sources:                        *)
(*   - the chat playground's client-side context management                *)
(*     (frontend/src/components/ChatPlayground.jsx),                       *)
(*   - the container/Redis reconciliation script sync_redis.sh, as one     *)
(*     step and command by command,                                        *)
(*   - the dashboard's session handling and the requests it issues         *)
(*     (frontend/src/context/AuthContext.jsx, ModelManager),               *)
(*   - the operator scripts restart.sh and restart-rebuild.sh,             *)
(*   - the Model Library page (ModelManager), the API key list             *)
(*     (ApiKeyManager.jsx) and the playground's stream reader, and         *)
(*   - the session's expiry timers against the clock.                      *)
(* Message contents are modelled by their length in characters plus an id  *)
(* (the position at which the message entered the conversation).           *)
(***************************************************************************)
EXTENDS Integers, Sequences, FiniteSets, TLC

\* ------------------------------------------------------------------ bounds
\* Largest number of non-system messages the conversation may hold.
MaxMessages == 14
\* Largest number of long user messages (LongInput) in one conversation.
MaxLongMessages == 1

\* ------------------------------------------------------- program constants
\* ChatPlayground.jsx:121  const modelMaxContext = 2048; // Qwen 1.5B limit
modelMaxContext == 2048
\* ChatPlayground.jsx:35   'You are a helpful assistant.'
DefaultSystemPrompt == 28
\* ChatPlayground.jsx:33   useState(512)
DefaultMaxTokens == 512
\* ChatPlayground.jsx:234  'Error: Failed to get response. Please check the model status.'
ErrorContent == 61

\* ----------------------------------------------------------- input domains
\* Lengths (characters) of the text a user may type, after trim().
ShortInput == 4
LongInput == 8000
InputLengths == {ShortInput, LongInput}
\* Values typed into the "Max Tokens" field (min=1, max=1900).
MaxTokensChoices == {DefaultMaxTokens, 1900}
\* Length of the text one streamed reply adds to the assistant message.
ReplyLength == 4

\* Model records as GET /models returns them to the dashboard.
ModelQwen ==
  [abbr |-> "qwen1.5b", type |-> "llm", status |-> "running", max_model_len |-> 2048]
ModelTiny ==
  [abbr |-> "tiny", type |-> "llm", status |-> "running", max_model_len |-> 1024]
ModelBge ==
  [abbr |-> "bge", type |-> "embedding", status |-> "running", max_model_len |-> 512]
\* The lists a poll may deliver: all models, or [] after a failed poll.
ModelLists == { <<ModelBge, ModelQwen, ModelTiny>>, <<>> }

VARIABLES
  \* ---- ChatPlayground state
  models,            \* prop `models`
  selectedModel,     \* abbr, "" when none
  messages,          \* conversation (no system message)
  maxTokens,
  loading,
  contextTruncated,
  abortController,   \* TRUE while abortControllerRef.current is set
  request,           \* the chat-completions request in flight, or NoRequest
  \* ---- what sync_redis.sh reads and writes
  dockerPs,          \* containers `docker ps` lists, in listing order
  redisModel,        \* Redis hashes model:{abbr}
  redisGpu,          \* Redis strings gpu_assignment:{abbr}
  modelRoutes,       \* nginx/conf.d/model_routes.conf
  orchestratorUp,    \* http://localhost:8001/health answers
  modelsJson,        \* TRUE when models.json is found
  pass,              \* the reconciliation pass that has just completed
  \* ---- AuthProvider state and the requests the dashboard has issued
  token,             \* useState(null)
  isAuthenticated,   \* useState(false)
  authLoading,       \* AuthProvider's `loading`: TRUE until the mount effect ran
  localStorage,      \* items auth_token and token_expires
  timers,            \* setTimeout(logout) calls armed and not yet fired
  fetchWithAuthProp, \* TRUE when App hands fetchWithAuth to ChatPlayground
  apiKey,            \* ChatPlayground's apiKey state
  inflight,          \* requests issued and not yet answered
  fetched,           \* the fetchWithAuth call that has just completed
  \* ---- route regeneration seen command by command
  regen,             \* position of the running regeneration
  reader,            \* what a reader of the routes file last saw
  \* ---- one invocation of restart.sh or restart-rebuild.sh
  run,               \* the script, its arguments, options and exit status
  dockerExited,      \* names of stopped containers that still exist
  env,               \* the host the script runs on
  \* ---- dashboard pages
  manager,           \* ModelManager: its props and useState values
  keyPage,           \* ApiKeyManager: the listed keys and the request sent
  stream,            \* one streamed chat response being read
  clock              \* Date.now(), for the session's expiry

chatVars == <<models, selectedModel, messages, maxTokens, loading,
              contextTruncated, abortController, request>>

syncVars == <<dockerPs, redisModel, redisGpu, modelRoutes, orchestratorUp,
              modelsJson, pass>>

authVars == <<token, isAuthenticated, authLoading, localStorage, timers,
              fetchWithAuthProp, apiKey, inflight, fetched>>

routeVars == <<regen, reader>>

scriptVars == <<run, dockerExited, env>>

pageVars == <<manager, keyPage, stream, clock>>

vars == <<chatVars, syncVars, authVars, routeVars, scriptVars, pageVars>>

\* Values of the state that is at rest
Null == "null"
EmptyStorage == [auth_token |-> Null, token_expires |-> Null]
NoFetch == [done |-> FALSE]
NoRegen == [pc |-> "idle"]
NoRead == [done |-> FALSE]
NotInvoked == [pc |-> "none"]
Host == [installed |-> TRUE, reachable |-> TRUE, syncExecutable |-> TRUE]
NotMounted == [mounted |-> FALSE]

NoRequest == [sent |-> FALSE]

Min(a, b) == IF a < b THEN a ELSE b

\* Math.ceil(n / 4)
CeilDiv4(n) == (n + 3) \div 4

\* ChatPlayground.jsx:116-118
RECURSIVE estimateTokens(_)
estimateTokens(msgs) ==
  IF msgs = <<>> THEN 0
  ELSE CeilDiv4(Head(msgs).content) + estimateTokens(Tail(msgs))

\* Array.prototype.slice(-k) for 1 <= k <= Len(s)
SliceLast(s, k) == SubSeq(s, Len(s) - k + 1, Len(s))

\* Number of trailing messages kept by the first truncation step,
\* Math.min(10, allMessages.length - 1)   (ChatPlayground.jsx:129)
KeepCountWide(n) == Min(11, n - 1)
KeepCount(n) == Min(10, n - 1)

\* messagesToSend.splice(1, 1)   (ChatPlayground.jsx:134)
SpliceOldest(s) == <<s[1]>> \o SubSeq(s, 3, Len(s))

\* while (estimateTokens(messagesToSend) + maxTokens > modelMaxContext - 50
\*        && messagesToSend.length > 2)      (ChatPlayground.jsx:133-135)
RECURSIVE TruncateLoop(_, _)
TruncateLoop(ms, mt) ==
  IF estimateTokens(ms) + mt > modelMaxContext - 50 /\ Len(ms) > 2
  THEN TruncateLoop(SpliceOldest(ms), mt)
  ELSE ms

\* ChatPlayground.jsx:126
NeedsTruncation(all, mt) == estimateTokens(all) + mt > modelMaxContext - 50

\* ChatPlayground.jsx:122-140
MessagesToSend(all, mt) ==
  IF NeedsTruncation(all, mt)
  THEN TruncateLoop(<<all[1]>> \o SliceLast(all, KeepCount(Len(all))), mt)
  ELSE all

\* ChatPlayground.jsx:143-147
safeMaxTokens(toSend, mt) ==
  Min(mt, modelMaxContext - estimateTokens(toSend) - 50)

\* ChatPlayground.jsx:76
availableModels(ms) ==
  SelectSeq(ms, LAMBDA m : m.type = "llm" /\ m.status = "running")

\* ChatPlayground.jsx:79-83  default-model effect
DefaultModel(ms, sel) ==
  IF availableModels(ms) # <<>> /\ sel = ""
  THEN availableModels(ms)[1].abbr ELSE sel

\* ChatPlayground.jsx:95   models.find(m => m.abbr === selectedModel)
HasModel(ms, abbr) == \E i \in 1..Len(ms) : ms[i].abbr = abbr
FindModel(ms, abbr) ==
  ms[CHOOSE i \in 1..Len(ms) :
       ms[i].abbr = abbr /\ \A j \in 1..(i-1) : ms[j].abbr # abbr]

\* ChatPlayground.jsx:109-113; the system prompt is left at its default text
SystemMessage == [role |-> "system", content |-> DefaultSystemPrompt, id |-> 0]
AllMessages(userMessage) ==
  <<SystemMessage>>
    \o SelectSeq(messages, LAMBDA m : m.role # "system")
    \o <<userMessage>>

\* ---------------------------------------------------------------- actions
\* App.fetchModels delivers a new list (select.jsx:656-676); the
\* default-model effect then runs.
ModelsPolled ==
  \E ms \in ModelLists :
    /\ ms # models
    /\ models' = ms
    /\ selectedModel' = DefaultModel(ms, selectedModel)
    /\ UNCHANGED <<messages, maxTokens, loading, contextTruncated,
                   abortController, request>>
    /\ UNCHANGED <<pageVars, syncVars, authVars, routeVars, scriptVars>>

\* <select onChange> (ChatPlayground.jsx:326-341), disabled while loading
SelectModel ==
  \E i \in 1..Len(availableModels(models)) :
    /\ ~loading
    /\ selectedModel # availableModels(models)[i].abbr
    /\ selectedModel' = availableModels(models)[i].abbr
    /\ UNCHANGED <<models, messages, maxTokens, loading,
                   contextTruncated, abortController, request>>
    /\ UNCHANGED <<pageVars, syncVars, authVars, routeVars, scriptVars>>

\* Max Tokens field (ChatPlayground.jsx:403-410)
SetMaxTokens ==
  \E v \in MaxTokensChoices :
    /\ v # maxTokens
    /\ maxTokens' = v
    /\ UNCHANGED <<models, selectedModel, messages, loading,
                   contextTruncated, abortController, request>>
    /\ UNCHANGED <<pageVars, syncVars, authVars, routeVars, scriptVars>>

\* handleSend (ChatPlayground.jsx:246-268) together with the synchronous
\* part of handleStreamingResponse up to the fetch (94-183).  `input` is
\* the length of input.trim(), the text typed into the textarea (549-557)
\* before Send; the guard !input.trim() leaves only non-empty texts.
handleSend ==
  \E input \in InputLengths :
  /\ input # 0 /\ selectedModel # "" /\ ~loading
  /\ Len(messages) + 2 <= MaxMessages
  /\ input = LongInput =>
       Cardinality({i \in 1..Len(messages) :
                      messages[i].content = LongInput}) < MaxLongMessages
  /\ LET userMessage ==
           [role |-> "user", content |-> input, id |-> Len(messages) + 1]
         assistantMessage ==
           [role |-> "assistant", content |-> 0, id |-> Len(messages) + 2]
         all    == AllMessages(userMessage)
         toSend == MessagesToSend(all, maxTokens)
     IN  /\ messages' = messages \o <<userMessage, assistantMessage>>
         /\ loading' = TRUE
         /\ IF ~HasModel(models, selectedModel)
            THEN \* if (!model) return;
                 UNCHANGED <<contextTruncated, abortController, request>>
            ELSE /\ abortController' = TRUE
                 /\ contextTruncated' = NeedsTruncation(all, maxTokens)
                 /\ request' =
                      [sent       |-> TRUE,
                       abbr       |-> selectedModel,
                       W          |-> FindModel(models, selectedModel).max_model_len,
                       all        |-> all,
                       requested  |-> maxTokens,
                       messages   |-> toSend,
                       max_tokens |-> safeMaxTokens(toSend, maxTokens)]
  /\ UNCHANGED <<models, selectedModel, maxTokens>>
  /\ UNCHANGED <<pageVars, syncVars, authVars, routeVars, scriptVars>>

\* A data frame with content arrives (ChatPlayground.jsx:193-224)
StreamContent ==
  /\ request.sent
  /\ messages[Len(messages)].content = 0
  /\ messages' = [messages EXCEPT ![Len(messages)].content = ReplyLength]
  /\ UNCHANGED <<models, selectedModel, maxTokens, loading,
                 contextTruncated, abortController, request>>
  /\ UNCHANGED <<pageVars, syncVars, authVars, routeVars, scriptVars>>

\* finally { setLoading(false); abortControllerRef.current = null }
\* (ChatPlayground.jsx:240-243)
Finally ==
  /\ loading' = FALSE
  /\ abortController' = FALSE
  /\ request' = NoRequest

\* reader.read() reports done (ChatPlayground.jsx:194-195)
StreamDone ==
  /\ request.sent
  /\ Finally
  /\ UNCHANGED <<models, selectedModel, messages, maxTokens,
                 contextTruncated>>
  /\ UNCHANGED <<pageVars, syncVars, authVars, routeVars, scriptVars>>

\* fetch throws or !response.ok (ChatPlayground.jsx:185-187, 228-238)
StreamError ==
  /\ request.sent
  /\ messages' = [messages EXCEPT ![Len(messages)].content = ErrorContent]
  /\ Finally
  /\ UNCHANGED <<models, selectedModel, maxTokens, contextTruncated>>
  /\ UNCHANGED <<pageVars, syncVars, authVars, routeVars, scriptVars>>

\* stopGeneration -> AbortError (ChatPlayground.jsx:277-281, 226-227)
stopGeneration ==
  /\ abortController
  /\ Finally
  /\ UNCHANGED <<models, selectedModel, messages, maxTokens,
                 contextTruncated>>
  /\ UNCHANGED <<pageVars, syncVars, authVars, routeVars, scriptVars>>

\* clearChat / newConversation (ChatPlayground.jsx:289-296), disabled
\* while loading
clearChat ==
  /\ ~loading /\ messages # <<>>
  /\ messages' = <<>>
  /\ UNCHANGED <<models, selectedModel, maxTokens, loading,
                 contextTruncated, abortController, request>>
  /\ UNCHANGED <<pageVars, syncVars, authVars, routeVars, scriptVars>>

\* ======================================================== sync_redis.sh
\* Names are sequences of characters so that grep's pattern matching can be
\* modelled; the reserved prefix is kept as one token.
AbbrDot  == <<"q", ".", "5">>     \* a catalogue abbr with a dot, like qwen1.5b
AbbrDash == <<"q", "-", "5">>     \* an abbr models.json does not list
AbbrBge  == <<"b", "g", "e">>     \* a catalogue abbr that is never deployed
\* The abbrs of the containers and records considered.
Abbrs == {AbbrDot, AbbrDash}

ContainerName(abbr) == <<"MIND_MODEL_">> \o abbr
\* MODEL_ABBR=${container#MIND_MODEL_}        (sync_redis.sh:154, 281)
StripPrefix(container) ==
  IF container # <<>> /\ Head(container) = "MIND_MODEL_"
  THEN Tail(container) ELSE container

\* frontend/src/models.json, predefined_models in file order
NameQwen == "Qwen/Qwen2.5-1.5B-Instruct"
NameBge  == "BAAI/bge-m3"
Catalog ==
  << [abbr |-> AbbrBge, name |-> NameBge,  type |-> "embedding"],
     [abbr |-> AbbrDot, name |-> NameQwen, type |-> "llm"] >>
CatalogAbbrs == {Catalog[i].abbr : i \in 1..Len(Catalog)}
CatalogEntry(abbr) ==
  Catalog[CHOOSE i \in 1..Len(Catalog) : Catalog[i].abbr = abbr]

\* GPU indices of the host
Gpus == {"0", "1"}

Absent == [exists |-> FALSE]
NoPass == [done |-> FALSE]
\* The platform's own Redis container, always listed by docker ps.
RedisContainer ==
  [name |-> <<"MIND_REDIS_STORE">>, status |-> "running",
   cuda |-> "unset", model |-> ""]

\* docker ps --format "{{.Names}}" | grep "^MIND_MODEL_"   (sync_redis.sh:138)
RunningModels(ps) ==
  SelectSeq(ps, LAMBDA c : Head(c.name) = "MIND_MODEL_")
Names(cs) == [i \in 1..Len(cs) |-> cs[i].name]
Listed(ps, abbr) ==
  \E i \in 1..Len(ps) : ps[i].name = ContainerName(abbr)

\* GPU_DEVICE: the value of CUDA_VISIBLE_DEVICES, '0' when the variable is
\* not set                                              (sync_redis.sh:161-171)
GpuDeviceDefaultOne(c) == IF c.cuda = "unset" THEN "1" ELSE c.cuda
GpuDevice(c) == IF c.cuda = "unset" THEN "0" ELSE c.cuda

\* The models.json lookup                               (sync_redis.sh:192-209)
MatchesEntry(e, abbr, modelName) ==
  e.abbr = abbr \/ (modelName # "" /\ e.name = modelName)
ModelInfo(abbr, modelName) ==
  IF \E i \in 1..Len(Catalog) : MatchesEntry(Catalog[i], abbr, modelName)
  THEN LET i == CHOOSE k \in 1..Len(Catalog) :
                  /\ MatchesEntry(Catalog[k], abbr, modelName)
                  /\ \A j \in 1..(k-1) : ~MatchesEntry(Catalog[j], abbr, modelName)
           e == Catalog[i]
       IN  IF e.abbr = abbr
           THEN [name |-> IF modelName # "" THEN modelName ELSE e.name,
                 type |-> e.type]
           ELSE [name |-> e.name, type |-> e.type]
  ELSE [name |-> modelName, type |-> "unknown"]

\* TRUE when the loop body reaches the HSET for container c
\*                                                 (sync_redis.sh:176-222)
Upserted(c, json) ==
  /\ c.status = "running"
  /\ json
  /\ ModelInfo(StripPrefix(c.name), c.model).type # "unknown"

\* redis-cli HSET model:$MODEL_ABBR ... : the listed fields are overwritten,
\* any other field of an existing hash is kept         (sync_redis.sh:228-237)
HSet(old, c) ==
  LET abbr == StripPrefix(c.name)
      info == ModelInfo(abbr, c.model)
  IN  [exists         |-> TRUE,
       status         |-> "running",
       name           |-> info.name,
       type           |-> info.type,
       container_name |-> c.name,
       gpu_device     |-> GpuDevice(c),
       message        |-> IF old.exists THEN old.message ELSE ""]

\* for container in $RUNNING_MODELS; do ... done       (sync_redis.sh:152-247)
RECURSIVE UpsertModels(_, _, _)
UpsertModels(cs, rm, json) ==
  IF cs = <<>> THEN rm
  ELSE LET c    == Head(cs)
           abbr == StripPrefix(c.name)
       IN  UpsertModels(Tail(cs),
                        IF Upserted(c, json)
                        THEN [rm EXCEPT ![abbr] = HSet(rm[abbr], c)]
                        ELSE rm,
                        json)

\* redis-cli SET gpu_assignment:$MODEL_ABBR $GPU_DEVICE     (sync_redis.sh:240)
RECURSIVE UpsertGpus(_, _, _)
UpsertGpus(cs, rg, json) ==
  IF cs = <<>> THEN rg
  ELSE LET c    == Head(cs)
           abbr == StripPrefix(c.name)
       IN  UpsertGpus(Tail(cs),
                      IF Upserted(c, json)
                      THEN [rg EXCEPT ![abbr] = GpuDevice(c)]
                      ELSE rg,
                      json)

\* grep -q "^$CONTAINER_NAME$" on one line: the name is used as a basic
\* regular expression, in which '.' matches any character  (sync_redis.sh:258)
GrepLine(pattern, line) ==
  /\ Len(pattern) = Len(line)
  /\ \A i \in 1..Len(pattern) : pattern[i] = "." \/ pattern[i] = line[i]
\* echo "$RUNNING_MODELS" | grep -q "^$CONTAINER_NAME$"
GrepQ(pattern, lines) ==
  \E i \in 1..Len(lines) : GrepLine(pattern, lines[i])

\* TRUE when the cleanup loop deletes model:{abbr}      (sync_redis.sh:253-263)
Stale(rm, abbr, running) ==
  /\ rm[abbr].exists
  /\ ~GrepQ(ContainerName(abbr), Names(running))

\* model_routes.conf as the sequence of its parts
RoutesHeader == [kind |-> "comment", abbr |-> <<>>, upstream |-> <<>>]
\* location = /api/v1/$MODEL_ABBR/chat/completions { proxy_pass
\*   http://orchestrator/api/v1/$MODEL_ABBR/chat/completions; ... }
\*                                                     (sync_redis.sh:291-321)
ChatLocation(abbr) ==
  [kind |-> "location =", abbr |-> abbr, upstream |-> <<"orchestrator">>]
\* location /api/v1/$MODEL_ABBR/ { proxy_pass http://$container:8000/v1/; ... }
\*                                                     (sync_redis.sh:324-354)
ModelLocation(abbr, container) ==
  [kind |-> "location", abbr |-> abbr, upstream |-> container]

\* cat > header; for container in $RUNNING_MODELS; do cat >> ... done
\*                                                     (sync_redis.sh:275-356)
RECURSIVE RouteBlocks(_)
RouteBlocks(cs) ==
  IF cs = <<>> THEN <<>>
  ELSE LET abbr == StripPrefix(Head(cs).name)
       IN  <<ChatLocation(abbr), ModelLocation(abbr, Head(cs).name)>>
             \o RouteBlocks(Tail(cs))
\* the header written with `cat >>`: the file is appended to, not replaced
GeneratedRoutesAppended(running) ==
  modelRoutes \o <<RoutesHeader>> \o RouteBlocks(running)
GeneratedRoutes(running) == <<RoutesHeader>> \o RouteBlocks(running)

\* The platform before the first pass; the playground is not in use.
InitSync ==
  /\ manager = NotMounted /\ keyPage = NotMounted /\ stream = NotMounted
  /\ clock = 0
  /\ dockerPs = <<RedisContainer>>
  /\ redisModel = [a \in Abbrs |-> Absent]
  /\ redisGpu = [a \in Abbrs |-> "nil"]
  /\ modelRoutes = <<RoutesHeader>>
  /\ orchestratorUp \in BOOLEAN
  /\ modelsJson \in BOOLEAN
  /\ pass = NoPass
  /\ models = <<>>
  /\ selectedModel = ""
  /\ messages = <<>>
  /\ maxTokens = DefaultMaxTokens
  /\ loading = FALSE
  /\ contextTruncated = FALSE
  /\ abortController = FALSE
  /\ request = NoRequest
  /\ token = Null
  /\ isAuthenticated = FALSE
  /\ authLoading = FALSE
  /\ localStorage = EmptyStorage
  /\ timers = 0
  /\ fetchWithAuthProp = TRUE
  /\ apiKey = ""
  /\ inflight = {}
  /\ fetched = NoFetch
  /\ regen = NoRegen
  /\ reader = NoRead
  /\ run = NotInvoked
  /\ dockerExited = {}
  /\ env = Host

\* The store after the upsert loop and the stale-entry cleanup
\*                                                     (sync_redis.sh:152-263)
SyncedModels(running) ==
  LET rm == UpsertModels(running, redisModel, modelsJson)
  IN  [a \in Abbrs |-> IF Stale(rm, a, running) THEN Absent ELSE rm[a]]
SyncedGpus(running) ==
  LET rm == UpsertModels(running, redisModel, modelsJson)
      rg == UpsertGpus(running, redisGpu, modelsJson)
  IN  [a \in Abbrs |-> IF Stale(rm, a, running) THEN "nil" ELSE rg[a]]

\* The effect of one run of sync_redis.sh on the store and the routes file,
\* over the runtime as it is                            (sync_redis.sh:137-367)
SyncPass ==
  LET running == RunningModels(dockerPs)
  IN  /\ IF running = <<>>
         THEN \* no-containers branch: DEL every model:* key     (140-147)
              /\ redisModel' = [a \in Abbrs |-> Absent]
              /\ UNCHANGED <<redisGpu, modelRoutes>>
         ELSE /\ redisModel' = SyncedModels(running)
              /\ redisGpu' = SyncedGpus(running)
              /\ modelRoutes' =
                   IF orchestratorUp THEN GeneratedRoutes(running)
                   ELSE modelRoutes
      /\ pass' = [done    |-> TRUE,
                  listing |-> Names(running),
                  before  |-> redisModel,
                  again   |-> pass.done,
                  routes  |-> modelRoutes]
      /\ UNCHANGED <<dockerPs, orchestratorUp, modelsJson>>

\* The script run by hand or by cron, nothing else moving
SyncRedis ==
  /\ SyncPass
  /\ UNCHANGED <<pageVars, chatVars, authVars, routeVars, scriptVars>>

\* ------------------------------------------- the platform around the script
\* The orchestrator's lifecycle operations and the container runtime change
\* what the script finds; every such step ends the "pass has just completed"
\* condition.
RemoveContainer(ps, abbr) ==
  SelectSeq(ps, LAMBDA c : c.name # ContainerName(abbr))

\* Deploy(spec): stopped/absent -> deploying, for a catalogue model
OrchDeploy ==
  \E a \in Abbrs \cap CatalogAbbrs, g \in Gpus :
    /\ ~redisModel[a].exists
    /\ redisModel' = [redisModel EXCEPT ![a] =
         [exists |-> TRUE, status |-> "deploying",
          name |-> CatalogEntry(a).name, type |-> CatalogEntry(a).type,
          container_name |-> ContainerName(a), gpu_device |-> g,
          message |-> ""]]
    /\ redisGpu' = [redisGpu EXCEPT ![a] = g]
    /\ pass' = NoPass
    /\ UNCHANGED <<dockerPs, modelRoutes, orchestratorUp, modelsJson>>
    /\ UNCHANGED <<pageVars, chatVars, authVars, routeVars, scriptVars>>

\* Spawn: the container of a deploying model starts, bound to its GPU
OrchSpawn ==
  \E a \in Abbrs :
    /\ redisModel[a].exists /\ redisModel[a].status = "deploying"
    /\ ~Listed(dockerPs, a)
    /\ dockerPs' = <<[name |-> ContainerName(a), status |-> "running",
                      cuda |-> redisModel[a].gpu_device,
                      model |-> redisModel[a].name]>> \o dockerPs
    /\ pass' = NoPass
    /\ UNCHANGED <<redisModel, redisGpu, modelRoutes, orchestratorUp, modelsJson>>
    /\ UNCHANGED <<pageVars, chatVars, authVars, routeVars, scriptVars>>

\* WaitReady returned ok: deploying -> running
OrchReady ==
  \E a \in Abbrs :
    /\ redisModel[a].exists /\ redisModel[a].status = "deploying"
    /\ Listed(dockerPs, a)
    /\ redisModel' = [redisModel EXCEPT ![a].status = "running"]
    /\ pass' = NoPass
    /\ UNCHANGED <<dockerPs, redisGpu, modelRoutes, orchestratorUp, modelsJson>>
    /\ UNCHANGED <<pageVars, chatVars, authVars, routeVars, scriptVars>>

\* deploying -> error: the container is removed, the record stays
OrchFail ==
  \E a \in Abbrs :
    /\ redisModel[a].exists /\ redisModel[a].status = "deploying"
    /\ redisModel' = [redisModel EXCEPT ![a].status = "error",
                                        ![a].message = "deploy failed"]
    /\ dockerPs' = RemoveContainer(dockerPs, a)
    /\ pass' = NoPass
    /\ UNCHANGED <<redisGpu, modelRoutes, orchestratorUp, modelsJson>>
    /\ UNCHANGED <<pageVars, chatVars, authVars, routeVars, scriptVars>>

\* Stop(abbr): running -> stopped, the container no longer runs
OrchStop ==
  \E a \in Abbrs :
    /\ redisModel[a].exists /\ redisModel[a].status = "running"
    /\ redisModel' = [redisModel EXCEPT ![a].status = "stopped"]
    /\ dockerPs' = RemoveContainer(dockerPs, a)
    /\ pass' = NoPass
    /\ UNCHANGED <<redisGpu, modelRoutes, orchestratorUp, modelsJson>>
    /\ UNCHANGED <<pageVars, chatVars, authVars, routeVars, scriptVars>>

\* Delete(abbr): stopped or error -> absent
OrchDelete ==
  \E a \in Abbrs :
    /\ redisModel[a].exists /\ redisModel[a].status \in {"stopped", "error"}
    /\ redisModel' = [redisModel EXCEPT ![a] = Absent]
    /\ redisGpu' = [redisGpu EXCEPT ![a] = "nil"]
    /\ pass' = NoPass
    /\ UNCHANGED <<dockerPs, modelRoutes, orchestratorUp, modelsJson>>
    /\ UNCHANGED <<pageVars, chatVars, authVars, routeVars, scriptVars>>

\* A model container started outside the orchestrator (no record written)
DockerRun ==
  \E a \in Abbrs, g \in {"unset"} \cup Gpus, m \in {"", NameQwen} :
    /\ ~Listed(dockerPs, a)
    /\ dockerPs' = <<[name |-> ContainerName(a), status |-> "running",
                      cuda |-> g, model |-> m]>> \o dockerPs
    /\ pass' = NoPass
    /\ UNCHANGED <<redisModel, redisGpu, modelRoutes, orchestratorUp, modelsJson>>
    /\ UNCHANGED <<pageVars, chatVars, authVars, routeVars, scriptVars>>

\* docker pause: the container stays in the listing, State.Status = paused
DockerPause ==
  \E i \in 1..Len(dockerPs) :
    /\ Head(dockerPs[i].name) = "MIND_MODEL_"
    /\ dockerPs[i].status = "running"
    /\ dockerPs' = [dockerPs EXCEPT ![i].status = "paused"]
    /\ pass' = NoPass
    /\ UNCHANGED <<redisModel, redisGpu, modelRoutes, orchestratorUp, modelsJson>>
    /\ UNCHANGED <<pageVars, chatVars, authVars, routeVars, scriptVars>>

\* The container exits or is removed behind the orchestrator's back
DockerExit ==
  \E a \in Abbrs :
    /\ Listed(dockerPs, a)
    /\ dockerPs' = RemoveContainer(dockerPs, a)
    /\ pass' = NoPass
    /\ UNCHANGED <<redisModel, redisGpu, modelRoutes, orchestratorUp, modelsJson>>
    /\ UNCHANGED <<pageVars, chatVars, authVars, routeVars, scriptVars>>

\* redis-cli FLUSHALL                                  (restart-rebuild.sh:103)
RedisFlush ==
  /\ \E a \in Abbrs : redisModel[a].exists \/ redisGpu[a] # "nil"
  /\ redisModel' = [a \in Abbrs |-> Absent]
  /\ redisGpu' = [a \in Abbrs |-> "nil"]
  /\ pass' = NoPass
  /\ UNCHANGED <<dockerPs, modelRoutes, orchestratorUp, modelsJson>>
  /\ UNCHANGED <<pageVars, chatVars, authVars, routeVars, scriptVars>>

\* The orchestrator's health endpoint stops or starts answering
OrchestratorHealth ==
  /\ orchestratorUp' = ~orchestratorUp
  /\ pass' = NoPass
  /\ UNCHANGED <<dockerPs, redisModel, redisGpu, modelRoutes, modelsJson>>
  /\ UNCHANGED <<pageVars, chatVars, authVars, routeVars, scriptVars>>

NextSync ==
  \/ SyncRedis
  \/ OrchDeploy
  \/ OrchSpawn
  \/ OrchReady
  \/ OrchFail
  \/ OrchStop
  \/ OrchDelete
  \/ DockerRun
  \/ DockerPause
  \/ DockerExit
  \/ RedisFlush
  \/ OrchestratorHealth

SpecSync == InitSync /\ [][NextSync]_vars

\* The playground as mounted, with a model list already delivered; the
\* platform state is that of a fresh installation and does not change.
InitChat ==
  /\ manager = NotMounted /\ keyPage = NotMounted /\ stream = NotMounted
  /\ clock = 0
  /\ models = <<ModelBge, ModelQwen, ModelTiny>>
  /\ selectedModel = DefaultModel(models, "")
  /\ messages = <<>>
  /\ maxTokens = DefaultMaxTokens
  /\ loading = FALSE
  /\ contextTruncated = FALSE
  /\ abortController = FALSE
  /\ request = NoRequest
  /\ dockerPs = <<RedisContainer>>
  /\ redisModel = [a \in Abbrs |-> Absent]
  /\ redisGpu = [a \in Abbrs |-> "nil"]
  /\ modelRoutes = <<RoutesHeader>>
  /\ orchestratorUp = TRUE
  /\ modelsJson = TRUE
  /\ pass = NoPass
  /\ token = Null
  /\ isAuthenticated = FALSE
  /\ authLoading = FALSE
  /\ localStorage = EmptyStorage
  /\ timers = 0
  /\ fetchWithAuthProp = TRUE
  /\ apiKey = ""
  /\ inflight = {}
  /\ fetched = NoFetch
  /\ regen = NoRegen
  /\ reader = NoRead
  /\ run = NotInvoked
  /\ dockerExited = {}
  /\ env = Host

NextChat ==
  \/ ModelsPolled
  \/ SelectModel
  \/ SetMaxTokens
  \/ handleSend
  \/ StreamContent
  \/ StreamDone
  \/ StreamError
  \/ stopGeneration
  \/ clearChat

SpecChat == InitChat /\ [][NextChat]_vars

\* ------------------------------- route regeneration, command by command
\* The shell writes model_routes.conf with one `cat >` and then one `cat >>`
\* per running container; between two commands the file on disk is what the
\* commands so far have written, and another process may read it.

\* The two comment lines restart-rebuild.sh writes       (restart-rebuild.sh:113-116)
RoutesPlaceholder ==
  [kind |-> "comment", abbr |-> <<>>, upstream |-> <<"placeholder">>]
ClearedRoutes == <<RoutesHeader, RoutesPlaceholder>>

\* The blocks one iteration of the loop appends          (sync_redis.sh:280-356)
AppendedBlocks(c) ==
  <<ChatLocation(StripPrefix(c.name)),
    ModelLocation(StripPrefix(c.name), c.name)>>

InitRoutes ==
  /\ manager = NotMounted /\ keyPage = NotMounted /\ stream = NotMounted
  /\ clock = 0
  /\ dockerPs = <<RedisContainer>>
  /\ redisModel = [a \in Abbrs |-> Absent]
  /\ redisGpu = [a \in Abbrs |-> "nil"]
  /\ modelRoutes = <<RoutesHeader>>
  /\ orchestratorUp = TRUE
  /\ modelsJson = TRUE
  /\ pass = NoPass
  /\ models = <<>>
  /\ selectedModel = ""
  /\ messages = <<>>
  /\ maxTokens = DefaultMaxTokens
  /\ loading = FALSE
  /\ contextTruncated = FALSE
  /\ abortController = FALSE
  /\ request = NoRequest
  /\ token = Null
  /\ isAuthenticated = FALSE
  /\ authLoading = FALSE
  /\ localStorage = EmptyStorage
  /\ timers = 0
  /\ fetchWithAuthProp = TRUE
  /\ apiKey = ""
  /\ inflight = {}
  /\ fetched = NoFetch
  /\ regen = NoRegen
  /\ reader = NoRead
  /\ run = NotInvoked
  /\ dockerExited = {}
  /\ env = Host

\* sync_redis.sh up to and including the `cat >` of the header: the store is
\* synchronized, the listing is held in RUNNING_MODELS and the routes file
\* is truncated to the header                            (sync_redis.sh:137-278)
RegenBegin ==
  LET running == RunningModels(dockerPs)
  IN  /\ regen.pc = "idle"
      /\ running # <<>>
      /\ orchestratorUp
      /\ redisModel' = SyncedModels(running)
      /\ redisGpu' = SyncedGpus(running)
      /\ modelRoutes' = <<RoutesHeader>>
      /\ regen' = [pc   |-> "writing",
                   todo |-> running,
                   old  |-> modelRoutes,
                   new  |-> GeneratedRoutes(running)]
      /\ pass' = NoPass
      /\ UNCHANGED <<dockerPs, orchestratorUp, modelsJson, reader>>
      /\ UNCHANGED <<pageVars, chatVars, authVars, scriptVars>>

\* One iteration of `for container in $RUNNING_MODELS`: cat >> of the two
\* location blocks of that container                     (sync_redis.sh:280-356)
RegenAppend ==
  /\ regen.pc = "writing"
  /\ regen.todo # <<>>
  /\ modelRoutes' = modelRoutes \o AppendedBlocks(Head(regen.todo))
  /\ regen' = [regen EXCEPT !.todo = Tail(regen.todo)]
  /\ UNCHANGED <<dockerPs, redisModel, redisGpu, orchestratorUp, modelsJson,
                 pass, reader>>
  /\ UNCHANGED <<pageVars, chatVars, authVars, scriptVars>>

\* docker exec MIND_API_GATEWAY nginx -s reload: the proxy reads the file
\* the loop has finished                                 (sync_redis.sh:359-363)
RegenReload ==
  /\ regen.pc = "writing"
  /\ regen.todo = <<>>
  /\ reader' = [done |-> TRUE, saw |-> modelRoutes, regen |-> regen]
  /\ regen' = NoRegen
  /\ UNCHANGED <<dockerPs, redisModel, redisGpu, modelRoutes, orchestratorUp,
                 modelsJson, pass>>
  /\ UNCHANGED <<pageVars, chatVars, authVars, scriptVars>>

\* A reload of the proxy from elsewhere (restart.sh --nginx, the
\* orchestrator after a deploy): it reads the file as it is on disk now
ProxyReload ==
  /\ reader' = [done |-> TRUE, saw |-> modelRoutes, regen |-> regen]
  /\ UNCHANGED <<syncVars, regen>>
  /\ UNCHANGED <<pageVars, chatVars, authVars, scriptVars>>

\* restart-rebuild.sh cleaning the routes file when no model container is
\* running; the operator does not run it while sync_redis.sh is running
\*                                                  (restart-rebuild.sh:177-191)
CleanModelRoutes ==
  /\ regen.pc = "idle"
  /\ RunningModels(dockerPs) = <<>>
  /\ modelRoutes' = ClearedRoutes
  /\ pass' = NoPass
  /\ UNCHANGED <<dockerPs, redisModel, redisGpu, orchestratorUp, modelsJson>>
  /\ UNCHANGED <<pageVars, chatVars, authVars, routeVars, scriptVars>>

\* sync_redis.sh on the paths that leave the routes file alone: no model
\* container, or the orchestrator's health endpoint not answering
SyncWithoutRoutes ==
  /\ regen.pc = "idle"
  /\ RunningModels(dockerPs) = <<>> \/ ~orchestratorUp
  /\ SyncRedis

\* A model container comes up
ModelStarts ==
  \E a \in Abbrs :
    /\ ~Listed(dockerPs, a)
    /\ dockerPs' = <<[name |-> ContainerName(a), status |-> "running",
                      cuda |-> "0", model |-> NameQwen]>> \o dockerPs
    /\ pass' = NoPass
    /\ UNCHANGED <<redisModel, redisGpu, modelRoutes, orchestratorUp, modelsJson>>
    /\ UNCHANGED <<pageVars, chatVars, authVars, routeVars, scriptVars>>

NextRoutes ==
  \/ RegenBegin
  \/ RegenAppend
  \/ RegenReload
  \/ ProxyReload
  \/ CleanModelRoutes
  \/ SyncWithoutRoutes
  \/ ModelStarts
  \/ DockerExit
  \/ OrchestratorHealth

SpecRoutes == InitRoutes /\ [][NextRoutes]_vars

\* ------------------------------------ the dashboard's session and requests
\* AuthProvider (context/AuthContext.jsx), the handlers of ModelManager and
\* the request of the playground.  A request in flight is a record of the
\* headers it carries; `session` is the session token of the moment it was
\* issued.

\* Largest number of armed logout timers, and of requests in flight.
MaxTimers == 2
MaxInflight == 2

Tokens == {"t1", "t2"}
ApiKeys == {"sk-1"}
DefaultApiKey == "default-api-key"
Statuses == {200, 401, 403, 500}

\* What the login page leaves in local storage before it calls login(token);
\* "future" / "past" is Date.now() < parseInt(token_expires) or not.
StoredSession(t, expires) == [auth_token |-> t, token_expires |-> expires]

\* localStorage.removeItem(key)
removeItem(ls, key) == [ls EXCEPT ![key] = Null]

\* getAuthHeaders(): the Authorization value, Null when there is no header
\*                                                       (AuthContext.jsx:67-74)
getAuthHeaders == IF token # Null THEN token ELSE Null

\* fetch(url, {...options, headers: {...options.headers, ...authHeaders}})
\*                                                       (AuthContext.jsx:77-86)
ViaFetchWithAuth(op, xApiKey) ==
  [op |-> op, via |-> "fetchWithAuth", authorization |-> getAuthHeaders,
   xApiKey |-> xApiKey, session |-> token]
\* a plain fetch: only the headers the caller gives
ViaFetch(op, xApiKey) ==
  [op |-> op, via |-> "fetch", authorization |-> Null,
   xApiKey |-> xApiKey, session |-> token]

\* response.status === 401                               (AuthContext.jsx:89)
IsUnauthorizedOrForbidden(status) == status \in {401, 403}
IsUnauthorized(status) == status = 401

\* logout(): both items removed, token null, isAuthenticated false
\*                                                       (AuthContext.jsx:60-65)
logout ==
  /\ localStorage' = removeItem(removeItem(localStorage, "auth_token"),
                                "token_expires")
  /\ token' = Null
  /\ isAuthenticated' = FALSE

\* The dashboard is on screen: App renders it only when authenticated
\*                                                       (select.jsx:727-738)
DashboardShown == ~authLoading /\ isAuthenticated

Issue(r) ==
  /\ DashboardShown
  /\ Cardinality(inflight) < MaxInflight
  /\ inflight' = inflight \cup {r}
  /\ fetched' = NoFetch
  /\ UNCHANGED <<token, isAuthenticated, authLoading, localStorage, timers,
                 fetchWithAuthProp, apiKey>>
  /\ UNCHANGED <<pageVars, chatVars, syncVars, routeVars, scriptVars>>

\* The page before AuthProvider's mount effect has run; the browser may hold
\* a session from an earlier visit, still valid or expired.
InitAuth ==
  /\ manager = NotMounted /\ keyPage = NotMounted /\ stream = NotMounted
  /\ clock = 0
  /\ token = Null
  /\ isAuthenticated = FALSE
  /\ authLoading = TRUE
  /\ localStorage \in {EmptyStorage} \cup
       {StoredSession(t, e) : t \in Tokens, e \in {"future", "past"}}
  /\ timers = 0
  /\ fetchWithAuthProp \in BOOLEAN
  /\ apiKey = ""
  /\ inflight = {}
  /\ fetched = NoFetch
  /\ models = <<>>
  /\ selectedModel = ""
  /\ messages = <<>>
  /\ maxTokens = DefaultMaxTokens
  /\ loading = FALSE
  /\ contextTruncated = FALSE
  /\ abortController = FALSE
  /\ request = NoRequest
  /\ dockerPs = <<RedisContainer>>
  /\ redisModel = [a \in Abbrs |-> Absent]
  /\ redisGpu = [a \in Abbrs |-> "nil"]
  /\ modelRoutes = <<RoutesHeader>>
  /\ orchestratorUp = TRUE
  /\ modelsJson = TRUE
  /\ pass = NoPass
  /\ regen = NoRegen
  /\ reader = NoRead
  /\ run = NotInvoked
  /\ dockerExited = {}
  /\ env = Host

\* AuthProvider's mount effect                           (AuthContext.jsx:19-42)
Mount ==
  /\ authLoading
  /\ IF localStorage.auth_token # Null /\ localStorage.token_expires # Null
     THEN IF localStorage.token_expires = "future"
          THEN /\ token' = localStorage.auth_token
               /\ isAuthenticated' = TRUE
               /\ timers' = timers + 1
               /\ UNCHANGED localStorage
          ELSE /\ logout
               /\ UNCHANGED timers
     ELSE UNCHANGED <<token, isAuthenticated, localStorage, timers>>
  /\ authLoading' = FALSE
  /\ fetched' = NoFetch
  /\ UNCHANGED <<fetchWithAuthProp, apiKey, inflight>>
  /\ UNCHANGED <<pageVars, chatVars, syncVars, routeVars, scriptVars>>

\* The login page stores the session and calls login(authToken), which arms
\* the auto-logout timer                                 (AuthContext.jsx:44-58)
login ==
  \E t \in Tokens :
    /\ ~authLoading /\ ~isAuthenticated
    /\ timers < MaxTimers
    /\ localStorage' = StoredSession(t, "future")
    /\ token' = t
    /\ isAuthenticated' = TRUE
    /\ timers' = timers + 1
    /\ fetched' = NoFetch
    /\ UNCHANGED <<authLoading, fetchWithAuthProp, apiKey, inflight>>
    /\ UNCHANGED <<pageVars, chatVars, syncVars, routeVars, scriptVars>>

\* The sidebar's logout button                            (select.jsx:749)
LogoutClick ==
  /\ DashboardShown
  /\ logout
  /\ fetched' = NoFetch
  /\ UNCHANGED <<authLoading, timers, fetchWithAuthProp, apiKey, inflight>>
  /\ UNCHANGED <<pageVars, chatVars, syncVars, routeVars, scriptVars>>

\* A timeout armed by login or by the mount effect elapses; timeouts are
\* never cleared                                         (AuthContext.jsx:32-34)
TimerFires ==
  /\ timers > 0
  /\ logout
  /\ timers' = timers - 1
  /\ fetched' = NoFetch
  /\ UNCHANGED <<authLoading, fetchWithAuthProp, apiKey, inflight>>
  /\ UNCHANGED <<pageVars, chatVars, syncVars, routeVars, scriptVars>>

\* App: GET /models, on login and by setInterval
\*                                        (select.jsx:656-676; 406-415 plain)
fetchModels ==
  Issue(IF fetchWithAuthProp THEN ViaFetchWithAuth("models", Null)
        ELSE ViaFetch("models", Null))

\* App: GET /api-keys                                     (select.jsx:678-686)
fetchApiKeys == Issue(ViaFetchWithAuth("api-keys", Null))

\* ModelManager: POST /models/deploy                     (ModelManager:65-97)
handleDeploy == Issue(ViaFetchWithAuth("deploy", Null))
\* ModelManager: POST /models/{abbr}/stop                (ModelManager:99-114)
handleStop == Issue(ViaFetchWithAuth("stop", Null))
\* ModelManager: POST /models/{abbr}/start              (ModelManager:116-131)
handleStart == Issue(ViaFetchWithAuth("start", Null))
\* ModelManager: DELETE /models/{abbr}, a plain fetch   (ModelManager:133-149)
handleDelete == Issue(ViaFetch("delete", Null))

\* ChatPlayground's mount effect: skipped when fetchWithAuth is given, else
\* apiKey becomes the first key listed or 'default-api-key'
\*                                                    (ChatPlayground.jsx:43-64)
PlaygroundApiKeys ==
  /\ DashboardShown
  /\ ~fetchWithAuthProp
  /\ apiKey = ""
  /\ apiKey' \in ApiKeys \cup {DefaultApiKey}
  /\ fetched' = NoFetch
  /\ UNCHANGED <<token, isAuthenticated, authLoading, localStorage, timers,
                 fetchWithAuthProp, inflight>>
  /\ UNCHANGED <<pageVars, chatVars, syncVars, routeVars, scriptVars>>

\* ChatPlayground: POST /api/v1/{abbr}/chat/completions
\*                                                  (ChatPlayground.jsx:157-183)
handleStreamingResponse ==
  Issue(IF fetchWithAuthProp THEN ViaFetchWithAuth("chat", Null)
        ELSE ViaFetch("chat", apiKey))

\* The callback a handler runs on response.ok: onModelDeployed /
\* onModelStopped is App's fetchModels of the render the handler belongs to,
\* so it sends the token of that render             (ModelManager:89-92, 106-108)
Refetch(r) ==
  [op |-> "models",
   via |-> IF fetchWithAuthProp THEN "fetchWithAuth" ELSE "fetch",
   authorization |-> IF fetchWithAuthProp THEN r.session ELSE Null,
   xApiKey |-> Null,
   session |-> token']

\* The server answers a request.  For a request made through fetchWithAuth:
\* status 401 -> logout() and throw; any other status -> the response is
\* returned                                              (AuthContext.jsx:88-94)
Respond ==
  \E r \in inflight, status \in Statuses :
    /\ IF r.via = "fetchWithAuth"
       THEN /\ fetched' =
                 [done |-> TRUE, status |-> status, request |-> r,
                  result |-> IF IsUnauthorized(status) THEN "error"
                             ELSE "response",
                  before |-> [token |-> token,
                              isAuthenticated |-> isAuthenticated,
                              localStorage |-> localStorage]]
            /\ IF IsUnauthorized(status)
               THEN logout
               ELSE UNCHANGED <<token, isAuthenticated, localStorage>>
       ELSE /\ fetched' = NoFetch
            /\ UNCHANGED <<token, isAuthenticated, localStorage>>
    /\ inflight' =
         IF status = 200 /\ r.op \in {"deploy", "stop", "start", "delete"}
         THEN (inflight \ {r}) \cup {Refetch(r)}
         ELSE inflight \ {r}
    /\ UNCHANGED <<authLoading, timers, fetchWithAuthProp, apiKey>>
    /\ UNCHANGED <<pageVars, chatVars, syncVars, routeVars, scriptVars>>

\* The request fails on the network: fetch rejects, no status is seen
FetchFails ==
  \E r \in inflight :
    /\ inflight' = inflight \ {r}
    /\ fetched' = NoFetch
    /\ UNCHANGED <<token, isAuthenticated, authLoading, localStorage, timers,
                   fetchWithAuthProp, apiKey>>
    /\ UNCHANGED <<pageVars, chatVars, syncVars, routeVars, scriptVars>>

NextAuth ==
  \/ Mount
  \/ login
  \/ LogoutClick
  \/ TimerFires
  \/ fetchModels
  \/ fetchApiKeys
  \/ handleDeploy
  \/ handleStop
  \/ handleStart
  \/ handleDelete
  \/ PlaygroundApiKeys
  \/ handleStreamingResponse
  \/ Respond
  \/ FetchFails

SpecAuth == InitAuth /\ [][NextAuth]_vars

\* --------------------------------------- restart.sh and restart-rebuild.sh
\* One invocation of either script, phase by phase.  Options are written in
\* their short form; each case arm of the scripts pairs it with a long form.

\* Largest number of command-line arguments.
MaxArgs == 2

Restart == "restart.sh"
Rebuild == "restart-rebuild.sh"
Scripts == {Restart, Rebuild}

\* The arms of `case $1 in` other than --help and *
\*                                (restart.sh:21-40; restart-rebuild.sh:25-48)
OptionsOf(script) ==
  IF script = Restart THEN {"-o", "-f", "-n", "-r", "-q"}
  ELSE {"-n", "-o", "-f", "-k", "-c", "-a"}
Arguments == {"-o", "-f", "-n", "-r", "-q", "-k", "-c", "-a", "-h", "--bogus"}

RECURSIVE SeqsUpTo(_, _)
SeqsUpTo(S, n) ==
  IF n = 0 THEN {<<>>}
  ELSE LET shorter == SeqsUpTo(S, n - 1)
       IN  shorter \cup {<<x>> \o q : x \in S, q \in {t \in shorter : Len(t) = n - 1}}

\* the `*)` arm: the argument matches no other arm
\*                                (restart.sh:58-62; restart-rebuild.sh:70-74)
IsUnknownNever(script, a) == FALSE
IsUnknown(script, a) == a \notin OptionsOf(script) \cup {"-h"}

\* The assignment an arm makes before `shift`
SetOption(r, a) ==
  IF r.script = Restart
  THEN CASE a = "-o" -> [r EXCEPT !.SERVICE = "orchestrator"]
         [] a = "-f" -> [r EXCEPT !.SERVICE = "frontend"]
         [] a = "-n" -> [r EXCEPT !.SERVICE = "nginx"]
         [] a = "-r" -> [r EXCEPT !.SERVICE = "redis"]
         [] a = "-q" -> [r EXCEPT !.QUICK = TRUE]
         [] OTHER    -> r
  ELSE CASE a = "-n" -> [r EXCEPT !.NO_CACHE = TRUE]
         [] a = "-o" -> [r EXCEPT !.SERVICE = "orchestrator"]
         [] a = "-f" -> [r EXCEPT !.SERVICE = "frontend"]
         [] a = "-k" -> [r EXCEPT !.KEEP_MODELS = TRUE]
         [] a = "-c" -> [r EXCEPT !.CLEAR_DATASTORE = TRUE]
         [] a = "-a" -> [r EXCEPT !.NO_CACHE = TRUE]
         [] OTHER    -> r

Exited(r, status) == [r EXCEPT !.pc = "exited", !.exit = status]

\* docker and the daemon answer
Reach == env.installed /\ env.reachable
\* docker ps | grep -q "MIND_REDIS_STORE"
RedisUp(ps) == \E i \in 1..Len(ps) : ps[i].name = RedisContainer.name
\* names docker ps lists under ^MIND_MODEL_
ModelNames(ps) ==
  {ps[i].name : i \in {j \in 1..Len(ps) : Head(ps[j].name) = "MIND_MODEL_"}}
\* ... | xargs -r docker stop: the model containers leave the listing
StopModels(ps) == SelectSeq(ps, LAMBDA c : Head(c.name) # "MIND_MODEL_")
\* docker compose stop: the platform's own services stop
ComposeStop(ps) == SelectSeq(ps, LAMBDA c : c.name # RedisContainer.name)
\* docker compose up -d: they run again
ComposeUp(ps) == IF RedisUp(ps) THEN ps ELSE <<RedisContainer>> \o ps

\* [ "$KEEP_MODELS" = true ] && [ "$CLEAR_DATASTORE" != true ]
\*                                                   (restart-rebuild.sh:128)
KeepsModelsNever(r) == FALSE
KeepsModels(r) == r.KEEP_MODELS /\ ~r.CLEAR_DATASTORE

\* The record the orchestrator holds for a model it has brought up
DeployedRecord(a) ==
  [exists |-> TRUE, status |-> "running", name |-> CatalogEntry(a).name,
   type |-> CatalogEntry(a).type, container_name |-> ContainerName(a),
   gpu_device |-> "0", message |-> ""]
ModelContainer(a) ==
  [name |-> ContainerName(a), status |-> "running", cuda |-> "0",
   model |-> NameQwen]

\* A host with the platform in one of its resting states: the catalogue
\* model deployed or not, a container started by hand or not, Redis up or
\* stopped (its data is kept on disk).
InitRestart ==
  /\ manager = NotMounted /\ keyPage = NotMounted /\ stream = NotMounted
  /\ clock = 0
  /\ \E dot \in BOOLEAN, dash \in BOOLEAN, redisUp \in BOOLEAN :
       /\ dockerPs = (IF dash THEN <<ModelContainer(AbbrDash)>> ELSE <<>>)
                     \o (IF dot THEN <<ModelContainer(AbbrDot)>> ELSE <<>>)
                     \o (IF redisUp THEN <<RedisContainer>> ELSE <<>>)
       /\ redisModel = [a \in Abbrs |->
                          IF dot /\ a = AbbrDot THEN DeployedRecord(a)
                          ELSE Absent]
       /\ redisGpu = [a \in Abbrs |->
                        IF dot /\ a = AbbrDot THEN "0" ELSE "nil"]
       /\ modelRoutes = IF dot
                        THEN <<RoutesHeader>>
                               \o AppendedBlocks(ModelContainer(AbbrDot))
                        ELSE <<RoutesHeader>>
       /\ orchestratorUp = redisUp
  /\ env \in {e \in [installed : BOOLEAN, reachable : BOOLEAN,
                     syncExecutable : BOOLEAN] :
                e.reachable => e.installed}
  /\ modelsJson = TRUE
  /\ pass = NoPass
  /\ run = NotInvoked
  /\ dockerExited = {}
  /\ models = <<>>
  /\ selectedModel = ""
  /\ messages = <<>>
  /\ maxTokens = DefaultMaxTokens
  /\ loading = FALSE
  /\ contextTruncated = FALSE
  /\ abortController = FALSE
  /\ request = NoRequest
  /\ token = Null
  /\ isAuthenticated = FALSE
  /\ authLoading = FALSE
  /\ localStorage = EmptyStorage
  /\ timers = 0
  /\ fetchWithAuthProp = TRUE
  /\ apiKey = ""
  /\ inflight = {}
  /\ fetched = NoFetch
  /\ regen = NoRegen
  /\ reader = NoRead

\* The operator starts a script with some arguments; the variables are set
\* to their defaults                  (restart.sh:15-17; restart-rebuild.sh:16-21)
Invoke ==
  \E script \in Scripts, argv \in SeqsUpTo(Arguments, MaxArgs) :
    /\ run.pc = "none"
    /\ run' = [pc |-> "parse", script |-> script, argv |-> argv,
               args |-> argv, SERVICE |-> "", QUICK |-> FALSE,
               NO_CACHE |-> FALSE, KEEP_MODELS |-> FALSE,
               CLEAR_DATASTORE |-> FALSE, exit |-> "none",
               docker |-> FALSE, wrote |-> FALSE,
               atStart |-> ModelNames(dockerPs)]
    /\ UNCHANGED <<dockerExited, env>>
    /\ UNCHANGED <<pageVars, chatVars, syncVars, authVars, routeVars>>

\* One turn of `while [[ $# -gt 0 ]]; do case $1 in ...`
\*                                (restart.sh:19-64; restart-rebuild.sh:23-76)
ParseArgs ==
  /\ run.pc = "parse"
  /\ run.args # <<>>
  /\ LET a == Head(run.args)
     IN  run' = IF a = "-h" THEN Exited(run, 0)
                ELSE IF IsUnknown(run.script, a) THEN Exited(run, 1)
                ELSE [SetOption(run, a) EXCEPT !.args = Tail(run.args)]
  /\ UNCHANGED <<dockerExited, env>>
  /\ UNCHANGED <<pageVars, chatVars, syncVars, authVars, routeVars>>

\* restart.sh: `docker compose ps --quiet | grep -q .` finds nothing ->
\* ./start.sh; exit 0.  start.sh brings the services up when it can.
\*                                                          (restart.sh:66-71)
RestartCheck ==
  /\ run.pc = "parse" /\ run.script = Restart /\ run.args = <<>>
  /\ IF Reach /\ RedisUp(dockerPs)
     THEN /\ run' = [run EXCEPT !.pc = "restart", !.docker = TRUE]
          /\ UNCHANGED <<dockerPs, orchestratorUp>>
     ELSE /\ run' = [Exited(run, 0) EXCEPT !.docker = TRUE]
          /\ IF Reach
             THEN /\ dockerPs' = ComposeUp(dockerPs)
                  /\ orchestratorUp' \in BOOLEAN
             ELSE UNCHANGED <<dockerPs, orchestratorUp>>
  /\ pass' = NoPass
  /\ UNCHANGED <<redisModel, redisGpu, modelRoutes, modelsJson,
                 dockerExited, env>>
  /\ UNCHANGED <<pageVars, chatVars, authVars, routeVars>>

\* restart.sh: docker compose restart [$SERVICE]; the sync follows only for
\* a full restart without --quick                         (restart.sh:73-94)
RestartServices ==
  /\ run.pc = "restart"
  /\ run' = IF run.SERVICE = "" /\ ~run.QUICK
            THEN [run EXCEPT !.pc = "sync"]
            ELSE Exited(run, 0)
  /\ IF run.SERVICE \in {"", "orchestrator"}
     THEN orchestratorUp' \in BOOLEAN
     ELSE UNCHANGED orchestratorUp
  /\ pass' = NoPass
  /\ UNCHANGED <<dockerPs, redisModel, redisGpu, modelRoutes, modelsJson,
                 dockerExited, env>>
  /\ UNCHANGED <<pageVars, chatVars, authVars, routeVars>>

\* restart-rebuild.sh: `if ! command -v docker compose` -> exit 1
\*                                                  (restart-rebuild.sh:78-82)
RebuildCheck ==
  /\ run.pc = "parse" /\ run.script = Rebuild /\ run.args = <<>>
  /\ run' = IF env.installed THEN [run EXCEPT !.pc = "clear"]
            ELSE Exited(run, 1)
  /\ UNCHANGED <<dockerExited, env>>
  /\ UNCHANGED <<pageVars, chatVars, syncVars, authVars, routeVars>>

\* restart-rebuild.sh: list the models to keep; with --clear-datastore
\* FLUSHALL if Redis is listed, docker stop of every listed model container,
\* docker rm of every model container still listed, and the routes file
\* overwritten                                     (restart-rebuild.sh:84-120)
RebuildClear ==
  /\ run.pc = "clear"
  /\ IF run.CLEAR_DATASTORE
     THEN /\ IF Reach /\ RedisUp(dockerPs)
             THEN /\ redisModel' = [a \in Abbrs |-> Absent]
                  /\ redisGpu' = [a \in Abbrs |-> "nil"]
             ELSE UNCHANGED <<redisModel, redisGpu>>
          /\ IF Reach
             THEN /\ dockerPs' = StopModels(dockerPs)
                  /\ dockerExited' = dockerExited \cup ModelNames(dockerPs)
             ELSE UNCHANGED <<dockerPs, dockerExited>>
          /\ modelRoutes' = ClearedRoutes
          /\ run' = [run EXCEPT !.pc = "stop", !.docker = TRUE,
                                !.wrote = TRUE]
     ELSE /\ run' = [run EXCEPT !.pc = "stop",
                                !.docker = run.docker \/ run.KEEP_MODELS]
          /\ UNCHANGED <<redisModel, redisGpu, dockerPs, dockerExited,
                         modelRoutes>>
  /\ pass' = NoPass
  /\ UNCHANGED <<orchestratorUp, modelsJson, env>>
  /\ UNCHANGED <<pageVars, chatVars, authVars, routeVars>>

\* restart-rebuild.sh: stop the service, or the platform with or without
\* the model containers                           (restart-rebuild.sh:122-136)
RebuildStop ==
  /\ run.pc = "stop"
  /\ run' = [run EXCEPT !.pc = "build", !.docker = TRUE]
  /\ IF ~Reach
     THEN UNCHANGED <<dockerPs, dockerExited, orchestratorUp>>
     ELSE IF run.SERVICE # ""
     THEN /\ orchestratorUp' =
               IF run.SERVICE = "orchestrator" THEN FALSE ELSE orchestratorUp
          /\ UNCHANGED <<dockerPs, dockerExited>>
     ELSE IF KeepsModels(run)
     THEN /\ dockerPs' = ComposeStop(dockerPs)
          /\ orchestratorUp' = FALSE
          /\ UNCHANGED dockerExited
     ELSE /\ dockerPs' = ComposeStop(StopModels(dockerPs))
          /\ dockerExited' = dockerExited \cup ModelNames(dockerPs)
          /\ orchestratorUp' = FALSE
  /\ pass' = NoPass
  /\ UNCHANGED <<redisModel, redisGpu, modelRoutes, modelsJson, env>>
  /\ UNCHANGED <<pageVars, chatVars, authVars, routeVars>>

\* restart-rebuild.sh: build, overwrite the routes file when docker ps lists
\* no model container, docker compose up -d        (restart-rebuild.sh:137-214)
RebuildUp ==
  /\ run.pc = "build"
  /\ LET clean == run.SERVICE = ""
                  /\ (~Reach \/ RunningModels(dockerPs) = <<>>)
     IN  /\ modelRoutes' = IF clean THEN ClearedRoutes ELSE modelRoutes
         /\ run' = [run EXCEPT !.pc = "sync",
                               !.wrote = run.wrote \/ clean
                                         \/ run.SERVICE # "orchestrator"]
  /\ IF ~Reach
     THEN UNCHANGED <<dockerPs, orchestratorUp>>
     ELSE IF run.SERVICE = ""
     THEN /\ dockerPs' = ComposeUp(dockerPs)
          /\ orchestratorUp' \in BOOLEAN
     ELSE IF run.SERVICE = "orchestrator"
     THEN /\ orchestratorUp' \in BOOLEAN
          /\ UNCHANGED dockerPs
     ELSE UNCHANGED <<dockerPs, orchestratorUp>>
  /\ pass' = NoPass
  /\ UNCHANGED <<redisModel, redisGpu, modelsJson, dockerExited, env>>
  /\ UNCHANGED <<pageVars, chatVars, authVars, routeVars>>

\* Either script: `if [ -x "./sync_redis.sh" ]; then ./sync_redis.sh`.  With
\* the daemon not answering docker ps lists nothing and the DEL loop finds
\* no key; with Redis stopped the store commands fail and only the routes
\* are written                    (restart.sh:95-101; restart-rebuild.sh:216-222)
ScriptSync ==
  /\ run.pc = "sync"
  /\ LET writes == env.syncExecutable /\ Reach /\ orchestratorUp
                    /\ RunningModels(dockerPs) # <<>>
         after  == [run EXCEPT !.wrote = run.wrote \/ writes]
     IN  run' = IF run.script = Restart THEN Exited(after, 0)
                ELSE [after EXCEPT !.pc = "finish"]
  /\ IF env.syncExecutable /\ Reach /\ RedisUp(dockerPs)
     THEN SyncPass
     ELSE /\ modelRoutes' =
               IF env.syncExecutable /\ Reach /\ orchestratorUp
                  /\ RunningModels(dockerPs) # <<>>
               THEN GeneratedRoutes(RunningModels(dockerPs))
               ELSE modelRoutes
          /\ pass' = NoPass
          /\ UNCHANGED <<dockerPs, redisModel, redisGpu, orchestratorUp,
                         modelsJson>>
  /\ UNCHANGED <<dockerExited, env>>
  /\ UNCHANGED <<pageVars, chatVars, authVars, routeVars>>

\* restart-rebuild.sh: docker compose restart orchestrator, the report, and
\* the end of the script                          (restart-rebuild.sh:224-278)
RebuildFinish ==
  /\ run.pc = "finish"
  /\ run' = Exited(run, 0)
  /\ IF Reach /\ run.SERVICE \in {"", "orchestrator"}
     THEN orchestratorUp' \in BOOLEAN
     ELSE UNCHANGED orchestratorUp
  /\ UNCHANGED <<dockerPs, redisModel, redisGpu, modelRoutes, modelsJson,
                 pass, dockerExited, env>>
  /\ UNCHANGED <<pageVars, chatVars, authVars, routeVars>>

NextRestart ==
  \/ Invoke
  \/ ParseArgs
  \/ RestartCheck
  \/ RestartServices
  \/ RebuildCheck
  \/ RebuildClear
  \/ RebuildStop
  \/ RebuildUp
  \/ ScriptSync
  \/ RebuildFinish

SpecRestart == InitRestart /\ [][NextRestart]_vars

\* ============================================== ModelManager (part_000)
\* The Model Library view: <ModelManager models={models} .../> without a
\* filterType (select.jsx:762-770), so the prop is App's whole model list.
\* Names and abbrs are sequences of characters, so that the search filter's
\* toLowerCase().includes() can be computed.

ItemsPerPageChoices == {3, 6, 9, 12}      \* <option value=...> (part_000:484-487)
DefaultItemsPerPage == 6                  \* useState(6) (part_000:42)

\* predefined_models of models.json, as imported at part_000:23,44
PredefinedModel(abbr, name, type) == [abbr |-> abbr, name |-> name, type |-> type]
predefinedModels ==
  << PredefinedModel(<<"q", "1">>, <<"Q", "w", "1">>, "llm"),
     PredefinedModel(<<"q", "2">>, <<"Q", "w", "2">>, "llm"),
     PredefinedModel(<<"b", "1">>, <<"B", "g", "1">>, "embedding"),
     PredefinedModel(<<"b", "2">>, <<"B", "g", "2">>, "embedding"),
     PredefinedModel(<<"p", "1">>, <<"P", "h", "1">>, "llm") >>

\* A record of GET /models for the i-th catalogue entry.
ListedModel(i, status) ==
  [abbr |-> predefinedModels[i].abbr, name |-> predefinedModels[i].name,
   type |-> predefinedModels[i].type, status |-> status]

\* The lists App.fetchModels may hand down (select.jsx:656-676): [] after a
\* failed poll or before any deploy, otherwise the records of the moment.
ManagerModelLists ==
  { <<>>,
    << ListedModel(1, "running") >>,
    << ListedModel(1, "running"), ListedModel(2, "stopped"),
       ListedModel(3, "deploying"), ListedModel(4, "error") >>,
    << ListedModel(1, "stopped"), ListedModel(2, "running"),
       ListedModel(3, "running"), ListedModel(4, "running") >> }

\* String.prototype.toLowerCase over the characters in use
LowerChar(c) ==
  CASE c = "Q" -> "q" [] c = "W" -> "w" [] c = "B" -> "b"
    [] c = "G" -> "g" [] c = "P" -> "p" [] c = "H" -> "h"
    [] OTHER -> c
toLowerCase(s) == [i \in 1..Len(s) |-> LowerChar(s[i])]
\* String.prototype.includes
includes(s, q) ==
  \E i \in 0..(Len(s) - Len(q)) : SubSeq(s, i + 1, i + Len(q)) = q

\* Texts typed into the search box
SearchQueries == { <<>>, <<"Q">>, <<"1">>, <<"z">> }
StatusFilters == {"all", "running", "stopped", "deploying", "error"}
TypeFilters == {"all", "llm", "embedding"}

\* availableModels (part_000:156-159)
ManagerAvailableModels(m) ==
  SelectSeq(predefinedModels,
            LAMBDA pm : ~\E i \in 1..Len(m.models) : m.models[i].abbr = pm.abbr)

\* filteredModels (part_000:161-180)
filteredModels(m) ==
  LET bySearch ==
        IF m.searchQuery # <<>>
        THEN SelectSeq(m.models, LAMBDA x :
               \/ includes(toLowerCase(x.name), toLowerCase(m.searchQuery))
               \/ includes(toLowerCase(x.abbr), toLowerCase(m.searchQuery)))
        ELSE m.models
      byStatus ==
        IF m.statusFilter # "all"
        THEN SelectSeq(bySearch, LAMBDA x : x.status = m.statusFilter)
        ELSE bySearch
  IN  IF m.typeFilter # "all"
      THEN SelectSeq(byStatus, LAMBDA x : x.type = m.typeFilter)
      ELSE byStatus

\* Math.ceil(filteredModels.length / itemsPerPage) (part_000:183)
totalPages(m) ==
  (Len(filteredModels(m)) + m.itemsPerPage - 1) \div m.itemsPerPage

\* filteredModels.slice(startIndex, endIndex) (part_000:184-186)
paginatedModels(m) ==
  LET f == filteredModels(m)
      startIndex == (m.currentPage - 1) * m.itemsPerPage
      endIndex == startIndex + m.itemsPerPage
      last == IF endIndex < Len(f) THEN endIndex ELSE Len(f)
  IN  IF startIndex >= Len(f) THEN <<>> ELSE SubSeq(f, startIndex + 1, last)

\* const isRunning / isStopped (part_000:194-195)
isRunning(model) == model.status = "running"
isStoppedOrError(model) == model.status \in {"stopped", "error"}
isStopped(model) == model.status = "stopped"

\* The cards on screen: models.length === 0 shows the empty notice,
\* otherwise one card per paginated model (part_000:495-512)
Cards(m) ==
  IF Len(m.models) = 0 THEN {}
  ELSE {paginatedModels(m)[i] : i \in 1..Len(paginatedModels(m))}

InitManager ==
  /\ manager = [mounted        |-> TRUE,
                models         |-> <<>>,
                selectedModel  |-> <<>>,
                deploying      |-> FALSE,
                stoppingModel  |-> <<>>,
                startingModel  |-> <<>>,
                searchQuery    |-> <<>>,
                statusFilter   |-> "all",
                typeFilter     |-> "all",
                currentPage    |-> 1,
                itemsPerPage   |-> DefaultItemsPerPage]
  /\ keyPage = NotMounted /\ stream = NotMounted
  /\ clock = 0
  /\ models = <<>> /\ selectedModel = "" /\ messages = <<>>
  /\ maxTokens = DefaultMaxTokens /\ loading = FALSE
  /\ contextTruncated = FALSE /\ abortController = FALSE
  /\ request = NoRequest
  /\ dockerPs = <<>>
  /\ redisModel = [a \in Abbrs |-> Absent]
  /\ redisGpu = [a \in Abbrs |-> "nil"]
  /\ modelRoutes = <<>> /\ orchestratorUp = TRUE /\ modelsJson = TRUE
  /\ pass = NoPass
  /\ token = Null /\ isAuthenticated = FALSE /\ authLoading = FALSE
  /\ localStorage = EmptyStorage /\ timers = 0
  /\ fetchWithAuthProp = TRUE /\ apiKey = Null
  /\ inflight = <<>> /\ fetched = NoFetch
  /\ regen = NoRegen /\ reader = NoRead
  /\ run = NotInvoked /\ dockerExited = {} /\ env = Host

ManagerFrame ==
  UNCHANGED <<keyPage, stream, clock, chatVars, syncVars, authVars, routeVars,
              scriptVars>>

\* App.fetchModels -> setModels (select.jsx:656-676): a new prop value
ManagerModelsPolled ==
  \E ms \in ManagerModelLists :
    /\ ms # manager.models
    /\ manager' = [manager EXCEPT !.models = ms]
    /\ ManagerFrame

\* <select onChange={e => setSelectedModel(e.target.value)}> over
\* "Choose a model..." and availableModels (part_000:349-360)
setSelectedModel ==
  \E v \in {<<>>} \cup {ManagerAvailableModels(manager)[i].abbr :
                          i \in 1..Len(ManagerAvailableModels(manager))} :
    /\ v # manager.selectedModel
    /\ manager' = [manager EXCEPT !.selectedModel = v]
    /\ ManagerFrame

\* Deploy button (part_000:414-417) and handleDeploy up to the fetch
\* (part_000:65-85): POST /models/deploy for selectedModel goes out while
\* deploying turns true
ManagerHandleDeploy ==
  /\ manager.selectedModel # <<>> /\ ~manager.deploying
  /\ \E i \in 1..Len(predefinedModels) :
       predefinedModels[i].abbr = manager.selectedModel
  /\ manager' = [manager EXCEPT !.deploying = TRUE]
  /\ ManagerFrame

\* The deploy request settles (part_000:88-96)
DeploySettles ==
  \E ok \in BOOLEAN :
    /\ manager.deploying
    /\ manager' = [manager EXCEPT
                     !.deploying = FALSE,
                     !.selectedModel = IF ok THEN <<>> ELSE @]
    /\ ManagerFrame

\* Stop button of a card (part_000:232-244) and handleStop up to the fetch
\* (part_000:99-103): POST /models/{abbr}/stop goes out while stoppingModel
\* becomes abbr; null is the empty name
ManagerHandleStop ==
  \E model \in Cards(manager) :
    /\ isRunning(model)
    /\ manager.stoppingModel # model.abbr
    /\ manager' = [manager EXCEPT !.stoppingModel = model.abbr]
    /\ ManagerFrame

\* finally { setStoppingModel(null) } (part_000:111-113)
StopSettles ==
  /\ manager.stoppingModel # <<>>
  /\ manager' = [manager EXCEPT !.stoppingModel = <<>>]
  /\ ManagerFrame

\* Start button of a card (part_000:246-258) and handleStart up to the
\* fetch (part_000:116-120): POST /models/{abbr}/start goes out while
\* startingModel becomes abbr
ManagerHandleStart ==
  \E model \in Cards(manager) :
    /\ isStopped(model)
    /\ manager.startingModel # model.abbr
    /\ manager' = [manager EXCEPT !.startingModel = model.abbr]
    /\ ManagerFrame

\* finally { setStartingModel(null) } (part_000:128-130)
StartSettles ==
  /\ manager.startingModel # <<>>
  /\ manager' = [manager EXCEPT !.startingModel = <<>>]
  /\ ManagerFrame

\* Search box (part_000:441-447) and the reset effect (part_000:188-191)
setSearchQuery ==
  \E q \in SearchQueries :
    /\ q # manager.searchQuery
    /\ manager' = [manager EXCEPT !.searchQuery = q, !.currentPage = 1]
    /\ ManagerFrame

\* Status filter (part_000:452-461) and the reset effect
setStatusFilter ==
  \E f \in StatusFilters :
    /\ f # manager.statusFilter
    /\ manager' = [manager EXCEPT !.statusFilter = f, !.currentPage = 1]
    /\ ManagerFrame

\* Type filter (part_000:467-474) and the reset effect
setTypeFilter ==
  \E t \in TypeFilters :
    /\ t # manager.typeFilter
    /\ manager' = [manager EXCEPT !.typeFilter = t, !.currentPage = 1]
    /\ ManagerFrame

\* Items per page (part_000:480-488); itemsPerPage is not a dependency of
\* the reset effect
setItemsPerPage ==
  \E n \in ItemsPerPageChoices :
    /\ n # manager.itemsPerPage
    /\ manager' = [manager EXCEPT !.itemsPerPage = n]
    /\ ManagerFrame

\* Previous (part_000:524-530), shown when totalPages > 1
PreviousPage ==
  /\ totalPages(manager) > 1 /\ manager.currentPage # 1
  /\ manager' = [manager EXCEPT
       !.currentPage = IF manager.currentPage - 1 > 1
                       THEN manager.currentPage - 1 ELSE 1]
  /\ ManagerFrame

\* A numbered page button (part_000:531-541)
GoToPage ==
  \E i \in 0..(totalPages(manager) - 1) :
    /\ totalPages(manager) > 1 /\ manager.currentPage # i + 1
    /\ manager' = [manager EXCEPT !.currentPage = i + 1]
    /\ ManagerFrame

\* Next (part_000:542-548)
NextPage ==
  /\ totalPages(manager) > 1 /\ manager.currentPage # totalPages(manager)
  /\ manager' = [manager EXCEPT
       !.currentPage = IF totalPages(manager) < manager.currentPage + 1
                       THEN totalPages(manager) ELSE manager.currentPage + 1]
  /\ ManagerFrame

NextManager ==
  \/ ManagerModelsPolled \/ setSelectedModel
  \/ ManagerHandleDeploy \/ DeploySettles
  \/ ManagerHandleStop \/ StopSettles
  \/ ManagerHandleStart \/ StartSettles
  \/ setSearchQuery \/ setStatusFilter \/ setTypeFilter \/ setItemsPerPage
  \/ PreviousPage \/ GoToPage \/ NextPage

SpecManager == InitManager /\ [][NextManager]_vars

\* ============================================ ApiKeyManager.jsx, key list
\* The orchestrator's key store is taken from the specification: a key has
\* a full key, handed out once by POST /api-keys, and a prefix of its
\* first characters; GET /api-keys lists name and prefix only.
KeyIds == {1, 2, 3}
FullKeyOf(k) == CASE k = 1 -> "sk_aaaa1111" [] k = 2 -> "sk_bbbb2222" [] OTHER -> "sk_cccc3333"
PrefixOf(k) == CASE k = 1 -> "sk_aaaa" [] k = 2 -> "sk_bbbb" [] OTHER -> "sk_cccc"
NameOf(k) == CASE k = 1 -> "k1" [] k = 2 -> "k2" [] OTHER -> "k3"
\* An entry of GET /api-keys
KeyEntry(k) == [name |-> NameOf(k), prefix |-> PrefixOf(k)]
\* The response of GET /api-keys for a store, in creation order
RECURSIVE KeyListing(_, _)
KeyListing(store, k) ==
  IF k > 3 THEN <<>>
  ELSE (IF k \in store THEN <<KeyEntry(k)>> ELSE <<>>) \o KeyListing(store, k + 1)
\* DELETE /api-keys/{key_or_prefix}: the keys the store still holds
Revoke(store, id) ==
  {k \in store : FullKeyOf(k) # id /\ PrefixOf(k) # id}

\* The value of a JavaScript property access: undefined when the object
\* has no such property
Undefined == "undefined"
Prop(object, name) ==
  IF name \in DOMAIN object THEN object[name] ELSE Undefined
\* `${apiUrl}/api-keys/${key}`: the last path segment the template yields;
\* a string is inserted as it is, undefined as the text "undefined"
KeyPath(key) == key

NoKeyRequest == [method |-> "none"]

InitKeys ==
  /\ keyPage = [mounted         |-> TRUE,
                store           |-> {},
                apiKeys         |-> <<>>,
                deleting        |-> Null,
                newlyCreatedKey |-> Null,
                sent            |-> NoKeyRequest]
  /\ manager = NotMounted /\ stream = NotMounted
  /\ clock = 0
  /\ models = <<>> /\ selectedModel = "" /\ messages = <<>>
  /\ maxTokens = DefaultMaxTokens /\ loading = FALSE
  /\ contextTruncated = FALSE /\ abortController = FALSE
  /\ request = NoRequest
  /\ dockerPs = <<>>
  /\ redisModel = [a \in Abbrs |-> Absent]
  /\ redisGpu = [a \in Abbrs |-> "nil"]
  /\ modelRoutes = <<>> /\ orchestratorUp = TRUE /\ modelsJson = TRUE
  /\ pass = NoPass
  /\ token = Null /\ isAuthenticated = FALSE /\ authLoading = FALSE
  /\ localStorage = EmptyStorage /\ timers = 0
  /\ fetchWithAuthProp = TRUE /\ apiKey = Null
  /\ inflight = <<>> /\ fetched = NoFetch
  /\ regen = NoRegen /\ reader = NoRead
  /\ run = NotInvoked /\ dockerExited = {} /\ env = Host

KeysFrame ==
  UNCHANGED <<manager, stream, clock, chatVars, syncVars, authVars, routeVars,
              scriptVars>>

\* createApiKey (ApiKeyManager.jsx:26-59): POST /api-keys answers with the
\* full key, kept in newlyCreatedKey
createApiKey ==
  \E k \in KeyIds \ keyPage.store :
    /\ keyPage' = [keyPage EXCEPT
                     !.store = @ \cup {k},
                     !.newlyCreatedKey = FullKeyOf(k),
                     !.sent = [method |-> "POST"]]
    /\ KeysFrame

\* App.fetchApiKeys -> setApiKeys(data) (select.jsx:678-686)
KeysFetched ==
  /\ keyPage.apiKeys # KeyListing(keyPage.store, 1)
  /\ keyPage' = [keyPage EXCEPT !.apiKeys = KeyListing(keyPage.store, 1)]
  /\ KeysFrame

\* The delete button of a listed key (ApiKeyManager.jsx:314-318) and
\* deleteApiKey up to the request (61-66)
deleteApiKey ==
  \E i \in 1..Len(keyPage.apiKeys) :
    LET entry == keyPage.apiKeys[i]
        key == Prop(entry, "full_key")
    IN  /\ keyPage.deleting # key
        /\ keyPage' = [keyPage EXCEPT
                         !.deleting = key,
                         !.store = Revoke(@, KeyPath(key)),
                         !.sent = [method |-> "DELETE", id |-> KeyPath(key),
                                   chosen |-> entry]]
        /\ KeysFrame

\* finally { setDeleting(null) } (ApiKeyManager.jsx:79-81)
DeleteSettles ==
  /\ keyPage.deleting # Null
  /\ keyPage' = [keyPage EXCEPT !.deleting = Null]
  /\ KeysFrame

NextKeys ==
  createApiKey \/ KeysFetched \/ deleteApiKey \/ DeleteSettles

SpecKeys == InitKeys /\ [][NextKeys]_vars

\* ================================ ChatPlayground.jsx, reading the stream
\* The response body is a sequence of pieces of text; a read chunk is any
\* non-empty run of consecutive pieces, so every split modelled here is a
\* split of the byte stream (splits inside a piece are left out).

\* Largest number of data frames with content in one response.
MaxFrames == 2

DataPrefix == "data: "
DoneMark == "[DONE]"
Newline == "\n"
\* {"choices":[{"delta":{"content":"   and   "}}]}   around the content
JsonOpen == "{\"choices\":[{\"delta\":{\"content\":\""
JsonClose == "\"}}]}"
ContentChars == {"a", "b"}

\* One SSE data frame carrying delta.content = c
DataFrame(c) == <<DataPrefix, JsonOpen, c, JsonClose, Newline, Newline>>
DoneFrame == <<DataPrefix, DoneMark, Newline, Newline>>
\* The body upstream sends for the given delta contents
RECURSIVE SseBody(_)
SseBody(contents) ==
  IF contents = <<>> THEN DoneFrame
  ELSE DataFrame(Head(contents)) \o SseBody(Tail(contents))

\* The delta contents of the responses considered
FrameContents ==
  UNION {[1..n -> ContentChars] : n \in 1..MaxFrames}

\* chunk.split('\n') (ChatPlayground.jsx:198)
RECURSIVE split(_)
split(chunk) ==
  IF \A i \in 1..Len(chunk) : chunk[i] # Newline THEN <<chunk>>
  ELSE LET i == CHOOSE j \in 1..Len(chunk) :
                  /\ chunk[j] = Newline
                  /\ \A k \in 1..(j - 1) : chunk[k] # Newline
       IN  <<SubSeq(chunk, 1, i - 1)>> \o split(SubSeq(chunk, i + 1, Len(chunk)))

\* What one line adds to fullContent (ChatPlayground.jsx:201-221): nothing
\* unless it starts with 'data: ', is not [DONE], and the rest parses as
\* JSON; a JSON.parse error is caught and logged.
LineContent(line) ==
  IF line # <<>> /\ line[1] = DataPrefix
  THEN LET data == Tail(line)
       IN  IF data = <<DoneMark>> THEN <<>>
           ELSE IF /\ Len(data) = 3
                   /\ data[1] = JsonOpen /\ data[3] = JsonClose
                   /\ data[2] \in ContentChars
                THEN <<data[2]>>
                ELSE <<>>
  ELSE <<>>

\* for (const line of lines) ... fullContent += content
RECURSIVE AppendLines(_, _)
AppendLines(fullContent, lines) ==
  IF lines = <<>> THEN fullContent
  ELSE AppendLines(fullContent \o LineContent(Head(lines)), Tail(lines))

InitStream ==
  /\ \E contents \in FrameContents :
       stream = [mounted     |-> TRUE,
                 contents    |-> contents,
                 body        |-> SseBody(contents),
                 read        |-> 0,
                 fullContent |-> <<>>,
                 content     |-> <<>>,
                 done        |-> FALSE]
  /\ manager = NotMounted /\ keyPage = NotMounted
  /\ clock = 0
  /\ models = <<>> /\ selectedModel = "" /\ messages = <<>>
  /\ maxTokens = DefaultMaxTokens /\ loading = FALSE
  /\ contextTruncated = FALSE /\ abortController = FALSE
  /\ request = NoRequest
  /\ dockerPs = <<>>
  /\ redisModel = [a \in Abbrs |-> Absent]
  /\ redisGpu = [a \in Abbrs |-> "nil"]
  /\ modelRoutes = <<>> /\ orchestratorUp = TRUE /\ modelsJson = TRUE
  /\ pass = NoPass
  /\ token = Null /\ isAuthenticated = FALSE /\ authLoading = FALSE
  /\ localStorage = EmptyStorage /\ timers = 0
  /\ fetchWithAuthProp = TRUE /\ apiKey = Null
  /\ inflight = <<>> /\ fetched = NoFetch
  /\ regen = NoRegen /\ reader = NoRead
  /\ run = NotInvoked /\ dockerExited = {} /\ env = Host

StreamFrame ==
  UNCHANGED <<manager, keyPage, clock, chatVars, syncVars, authVars, routeVars,
              scriptVars>>

\* reader.read() yields a chunk; it is decoded, split into lines, and each
\* line is handled (ChatPlayground.jsx:193-224).  The assistant message
\* takes fullContent whenever a line added content.
ReadChunk ==
  \E n \in 1..(Len(stream.body) - stream.read) :
    LET chunk == SubSeq(stream.body, stream.read + 1, stream.read + n)
        full == AppendLines(stream.fullContent, split(chunk))
    IN  /\ ~stream.done
        /\ stream' = [stream EXCEPT
                        !.read = @ + n,
                        !.fullContent = full,
                        !.content = IF full # stream.fullContent THEN full ELSE @]
        /\ StreamFrame

\* reader.read() reports done: the loop ends (ChatPlayground.jsx:194-195)
ReadDone ==
  /\ ~stream.done /\ stream.read = Len(stream.body)
  /\ stream' = [stream EXCEPT !.done = TRUE]
  /\ StreamFrame

NextStream == ReadChunk \/ ReadDone

SpecStream == InitStream /\ [][NextStream]_vars

\* ================================= AuthProvider, the session against time
\* The same provider with Date.now() made explicit: token_expires is a
\* time, and `timers` is the set of times at which an armed setTimeout
\* callback is due.  The provider has no clearTimeout.

\* The last instant considered.
MaxClock == 4
\* Lifetimes the server gives a session.
SessionLifetimes == {1, 2}

\* Local storage holds text: the login page stores the expiry time as a
\* string of digits and the provider reads it back with parseInt.
Instants == 0..(MaxClock + 1)
parseInt(text) == CHOOSE n \in Instants : ToString(n) = text

\* Date.now() < parseInt(tokenExpires)                (AuthContext.jsx:25)
StillValid(tokenExpires) == clock < parseInt(tokenExpires)
\* setTimeout(() => logout(), timeUntilExpiry) when timeUntilExpiry > 0:
\* the callback is due at Date.now() + timeUntilExpiry
\*                                          (AuthContext.jsx:30-35, 51-56)
setTimeout(tokenExpires) ==
  LET timeUntilExpiry == parseInt(tokenExpires) - clock
  IN  IF timeUntilExpiry > 0 THEN timers \cup {clock + timeUntilExpiry}
      ELSE timers

\* A page load before the mount effect; the browser may hold a session
\* from an earlier visit.
InitSession ==
  /\ clock = 0
  /\ manager = NotMounted /\ keyPage = NotMounted /\ stream = NotMounted
  /\ token = Null
  /\ isAuthenticated = FALSE
  /\ authLoading = TRUE
  /\ localStorage \in {EmptyStorage} \cup
       {StoredSession(t, ToString(e)) : t \in Tokens,
                                         e \in {0} \cup SessionLifetimes}
  /\ timers = {}
  /\ fetchWithAuthProp = TRUE /\ apiKey = "" /\ inflight = {}
  /\ fetched = NoFetch
  /\ models = <<>> /\ selectedModel = "" /\ messages = <<>>
  /\ maxTokens = DefaultMaxTokens /\ loading = FALSE
  /\ contextTruncated = FALSE /\ abortController = FALSE
  /\ request = NoRequest
  /\ dockerPs = <<>>
  /\ redisModel = [a \in Abbrs |-> Absent]
  /\ redisGpu = [a \in Abbrs |-> "nil"]
  /\ modelRoutes = <<>> /\ orchestratorUp = TRUE /\ modelsJson = TRUE
  /\ pass = NoPass
  /\ regen = NoRegen /\ reader = NoRead
  /\ run = NotInvoked /\ dockerExited = {} /\ env = Host

SessionFrame ==
  UNCHANGED <<manager, keyPage, stream, fetchWithAuthProp, apiKey, inflight,
              fetched, chatVars, syncVars, routeVars, scriptVars>>

\* Time passes; a due callback runs before the clock moves on.
Tick ==
  /\ clock < MaxClock
  /\ \A due \in timers : due > clock
  /\ clock' = clock + 1
  /\ UNCHANGED <<token, isAuthenticated, authLoading, localStorage, timers>>
  /\ SessionFrame

\* The page is loaded afresh: React state starts over and the timers of
\* the old page are gone; local storage stays     (AuthContext.jsx:14-16)
PageLoad ==
  /\ ~authLoading
  /\ token' = Null
  /\ isAuthenticated' = FALSE
  /\ authLoading' = TRUE
  /\ timers' = {}
  /\ UNCHANGED <<clock, localStorage>>
  /\ SessionFrame

\* AuthProvider's mount effect                    (AuthContext.jsx:19-42)
SessionMount ==
  /\ authLoading
  /\ IF localStorage.auth_token # Null /\ localStorage.token_expires # Null
     THEN IF StillValid(localStorage.token_expires)
          THEN /\ token' = localStorage.auth_token
               /\ isAuthenticated' = TRUE
               /\ timers' = setTimeout(localStorage.token_expires)
               /\ UNCHANGED localStorage
          ELSE /\ logout
               /\ UNCHANGED timers
     ELSE UNCHANGED <<token, isAuthenticated, localStorage, timers>>
  /\ authLoading' = FALSE
  /\ UNCHANGED clock
  /\ SessionFrame

\* The login page stores the new session and calls login(authToken)
\*                                                (AuthContext.jsx:44-58)
SessionLogin ==
  \E t \in Tokens, life \in SessionLifetimes :
    /\ ~authLoading /\ ~isAuthenticated
    /\ clock + life <= MaxClock
    /\ localStorage' = StoredSession(t, ToString(clock + life))
    /\ token' = t
    /\ isAuthenticated' = TRUE
    /\ timers' = setTimeout(ToString(clock + life))
    /\ UNCHANGED <<clock, authLoading>>
    /\ SessionFrame

\* The sidebar's logout button                     (select.jsx:749)
SessionLogoutClick ==
  /\ DashboardShown
  /\ logout
  /\ UNCHANGED <<clock, authLoading, timers>>
  /\ SessionFrame

\* A setTimeout callback that is due runs logout() (AuthContext.jsx:32-34)
SessionTimerFires ==
  \E due \in timers :
    /\ due <= clock
    /\ logout
    /\ timers' = timers \ {due}
    /\ UNCHANGED <<clock, authLoading>>
    /\ SessionFrame

NextSession ==
  \/ Tick \/ PageLoad \/ SessionMount \/ SessionLogin
  \/ SessionLogoutClick \/ SessionTimerFires

SpecSession == InitSession /\ [][NextSession]_vars

\* ------------------------------------------- context-management properties
\* Token estimate of the specification: ceil(len(content)/4) + 4 per message.
RECURSIVE tokens_estimate(_)
tokens_estimate(msgs) ==
  IF msgs = <<>> THEN 0
  ELSE CeilDiv4(Head(msgs).content) + 4 + tokens_estimate(Tail(msgs))

NonSystem(msgs) == SelectSeq(msgs, LAMBDA m : m.role # "system")

\* R = min(requested max_tokens, floor(W/2))
CappedMaxTokens(rq) == Min(rq.requested, rq.W \div 2)

\* C1: every chat-completions request the playground sends satisfies
\* (sum of ceil(len/4)+4 over the forwarded messages) + forwarded max_tokens
\* + 50 <= W, W being the selected model's max_model_len.
C1_RequestWithinWindow ==
  request.sent =>
    tokens_estimate(request.messages) + request.max_tokens + 50 <= request.W

\* C2: when the estimate of the whole conversation plus R plus 50 is <= W,
\* with R = min(requested max_tokens, floor(W/2)), the request forwards every
\* message unchanged and in order and carries max_tokens = R.
C2_FitsForwardedUnchanged ==
  (request.sent
     /\ tokens_estimate(request.all) + CappedMaxTokens(request) + 50 <= request.W)
  => (request.messages = request.all
        /\ request.max_tokens = CappedMaxTokens(request))

\* The forwarded list is the system message followed by at most 10 messages
\* forming a contiguous suffix of the conversation's non-system messages.
TruncatedShape(rq) ==
  LET fwd == rq.messages
      k   == Len(fwd) - 1
      ns  == NonSystem(rq.all)
  IN  /\ Len(fwd) >= 1
      /\ fwd[1] = rq.all[1]
      /\ fwd[1].role = "system"
      /\ \A i \in 2..Len(fwd) : fwd[i].role # "system"
      /\ k <= 10
      /\ k <= Len(ns)
      /\ Tail(fwd) = SubSeq(ns, Len(ns) - k + 1, Len(ns))

C4_OversizedMessageNotSent ==
  request.sent =>
    tokens_estimate(<<request.all[Len(request.all)]>>) <= request.W - 64 - 50

\* --------------------------------------------------- reconciliation properties
\* The running containers named MIND_MODEL_{abbr}
RunningContainers ==
  {i \in 1..Len(dockerPs) :
     Head(dockerPs[i].name) = "MIND_MODEL_" /\ dockerPs[i].status = "running"}

\* model:{abbr} exists with status=running, container_name=MIND_MODEL_{abbr}
\* and gpu_device = the container's CUDA_VISIBLE_DEVICES (0 when unset)
RecordedAsRunning(c) ==
  LET r == redisModel[StripPrefix(c.name)]
  IN  /\ r.exists
      /\ r.status = "running"
      /\ r.container_name = c.name
      /\ r.gpu_device = (IF c.cuda = "unset" THEN "0" ELSE c.cuda)

\* models.json is present and lists the container's abbr or its --model name
InCatalog(c) ==
  /\ modelsJson
  /\ \E i \in 1..Len(Catalog) :
       \/ Catalog[i].abbr = StripPrefix(c.name)
       \/ (c.model # "" /\ Catalog[i].name = c.model)

\* C5 (as stated): after a pass, every running container MIND_MODEL_{abbr}
\* has its record with status=running, its container name and its GPU.
C5_EveryRunningContainerRecorded ==
  pass.done => \A i \in RunningContainers : RecordedAsRunning(dockerPs[i])

\* C5 (amended): after a pass over an unchanged runtime, every running
\* container MIND_MODEL_{abbr} whose abbr or --model name is listed in
\* models.json has exactly one record model:{abbr} with status=running,
\* container_name=MIND_MODEL_{abbr} and gpu_device equal to the container's
\* CUDA_VISIBLE_DEVICES (0 when unset), also when the store was empty before.
C5_CatalogContainersRecorded ==
  pass.done =>
    \A i \in RunningContainers :
      InCatalog(dockerPs[i]) => RecordedAsRunning(dockerPs[i])

\* C5 witness: a pass that started from an empty store has recorded a
\* running catalogue container together with its CUDA_VISIBLE_DEVICES.
C5_Witness ==
  /\ pass.done
  /\ \A a \in Abbrs : ~pass.before[a].exists
  /\ \E i \in RunningContainers :
       /\ InCatalog(dockerPs[i])
       /\ dockerPs[i].cuda = "1"
       /\ redisModel[StripPrefix(dockerPs[i].name)].exists

InListing(abbr) ==
  \E i \in 1..Len(pass.listing) : pass.listing[i] = ContainerName(abbr)

\* C6: after a pass, every record left with status running, deploying or
\* stopping has its container MIND_MODEL_{abbr} in the listing the pass took.
C6_ActiveRecordsHaveContainer ==
  pass.done =>
    \A a \in Abbrs :
      (redisModel[a].exists
         /\ redisModel[a].status \in {"running", "deploying", "stopping"})
      => InListing(a)

\* C7: a pass that runs while a deploy of abbr is in flight (status=deploying,
\* container not yet listed) does not delete model:{abbr}.
C7_DeployingRecordKept ==
  pass.done =>
    \A a \in Abbrs :
      (pass.before[a].exists /\ pass.before[a].status = "deploying"
         /\ ~InListing(a))
      => redisModel[a].exists

\* C8: a pass never deletes or alters a record whose status is stopped or
\* error; the record stays, with its message.
C8_StoppedAndErrorRecordsUntouched ==
  pass.done =>
    \A a \in Abbrs :
      (pass.before[a].exists /\ pass.before[a].status \in {"stopped", "error"})
      => redisModel[a] = pass.before[a]

LocationBlocks(abbr) ==
  {i \in 1..Len(modelRoutes) :
     modelRoutes[i].kind # "comment" /\ modelRoutes[i].abbr = abbr}

\* C9: after a pass, for every record with status=running the routes file
\* holds exactly two location blocks for its abbr: the exact chat/completions
\* block to the orchestrator and the prefix block to MIND_MODEL_{abbr}:8000.
C9_RunningRecordsRouted ==
  pass.done =>
    \A a \in Abbrs :
      (redisModel[a].exists /\ redisModel[a].status = "running")
      => /\ Cardinality(LocationBlocks(a)) = 2
         /\ \E i \in LocationBlocks(a) : modelRoutes[i] = ChatLocation(a)
         /\ \E i \in LocationBlocks(a) :
              modelRoutes[i] = ModelLocation(a, ContainerName(a))

\* C10: after a pass, the routes file has no location block for an abbr
\* without a record with status=running; none at all when no model container
\* is running.
C10_NoRouteWithoutRunningRecord ==
  pass.done =>
    \A i \in 1..Len(modelRoutes) :
      modelRoutes[i].kind # "comment"
      => \E a \in Abbrs :
           /\ a = modelRoutes[i].abbr
           /\ redisModel[a].exists /\ redisModel[a].status = "running"

\* C11: two consecutive route regenerations with nothing happening between
\* them (same running containers, same records, same orchestrator health)
\* leave the routes file byte-identical: after the second pass the file
\* equals the file the first pass left.
C11_RegenerationIdempotent ==
  (pass.done /\ pass.again) => modelRoutes = pass.routes

\* C11 witness: the second of two back-to-back passes has rewritten a routes
\* file that holds location blocks.
C11_Witness ==
  /\ pass.done /\ pass.again
  /\ orchestratorUp
  /\ pass.listing # <<>>
  /\ Len(modelRoutes) > 1
  /\ Len(pass.routes) > 1

\* C12: a reader that reads the routes file while a regeneration is in
\* progress sees either the complete content the file had before the
\* regeneration started or the complete content the regeneration produces.
C12_ReaderSeesWholeFile ==
  (reader.done /\ reader.regen.pc = "writing")
  => reader.saw \in {reader.regen.old, reader.regen.new}

\* -------------------------------------------------- session properties
ManagementOps == {"deploy", "start", "stop", "delete"}

\* C13: every deploy, start, stop and delete request issued while a session
\* is active carries Authorization: Bearer <the session token>.
C13_ManagementRequestsCarrySession ==
  \A r \in inflight :
    (r.op \in ManagementOps /\ r.session # Null)
    => r.authorization = r.session

\* C14: every chat-completions request of the playground presents an API key
\* (as Authorization: Bearer or as X-API-Key) and never the session token.
C14_ChatPresentsApiKey ==
  \A r \in inflight :
    r.op = "chat"
    => /\ r.authorization \in ApiKeys \/ r.xApiKey \in ApiKeys
       /\ r.authorization \notin Tokens

\* C15: when a request made through fetchWithAuth gets status 401, token is
\* null, isAuthenticated is false, auth_token and token_expires are gone from
\* local storage and the caller got an error; with any other status the
\* three are as they were and the caller got the response.
C15_OnlyUnauthorizedEndsSession ==
  fetched.done =>
    IF fetched.status = 401
    THEN /\ token = Null
         /\ ~isAuthenticated
         /\ localStorage.auth_token = Null
         /\ localStorage.token_expires = Null
         /\ fetched.result = "error"
    ELSE /\ token = fetched.before.token
         /\ isAuthenticated = fetched.before.isAuthenticated
         /\ localStorage = fetched.before.localStorage
         /\ fetched.result = "response"

\* C15 witness: a 401 has ended a session that was active and stored.
C15_Witness ==
  /\ fetched.done
  /\ fetched.status = 401
  /\ fetched.before.token \in Tokens
  /\ fetched.before.isAuthenticated
  /\ fetched.before.localStorage.auth_token \in Tokens
  /\ token = Null

\* ------------------------------------------------ operator-script properties
\* The first argument that is neither a known option nor preceded by -h
RECURSIVE MeetsUnknown(_, _)
MeetsUnknown(script, args) ==
  /\ args # <<>>
  /\ Head(args) # "-h"
  /\ \/ Head(args) \notin OptionsOf(script)
     \/ MeetsUnknown(script, Tail(args))

\* The arguments are all known options, none of them -h
ParsesClean(script, args) ==
  \A i \in 1..Len(args) : args[i] \in OptionsOf(script)

\* C16: a script that meets an unrecognized option (not preceded by -h) exits
\* with status 1 without having run a docker command or written a file.
C16_UnknownOptionExitsOne ==
  (run.pc = "exited" /\ MeetsUnknown(run.script, run.argv))
  => (run.exit = 1 /\ ~run.docker /\ ~run.wrote)

\* C16 witness: restart-rebuild.sh has exited on an unknown option that came
\* after an option it accepts.
C16_Witness ==
  /\ run.pc = "exited"
  /\ run.script = Rebuild
  /\ Len(run.argv) = 2
  /\ run.argv[1] \in OptionsOf(Rebuild)
  /\ run.argv[2] \notin OptionsOf(Rebuild) \cup {"-h"}
  /\ run.exit = 1

\* C17: a script whose arguments parse exits with status 2 whenever the
\* container runtime is not reachable.
C17_UnreachableExitsTwo ==
  (run.pc = "exited" /\ ParsesClean(run.script, run.argv) /\ ~Reach)
  => run.exit = 2

\* Every model container that ran at invocation is still listed
KeptRunning == \A n \in run.atStart : n \in ModelNames(dockerPs)

C19_ClearDatastoreLeavesNothing ==
  (run.pc = "exited" /\ run.script = Rebuild /\ run.exit = 0
     /\ run.args = <<>> /\ run.CLEAR_DATASTORE /\ Reach)
  => /\ \A a \in Abbrs : ~redisModel[a].exists /\ redisGpu[a] = "nil"
     /\ ModelNames(dockerPs) = {}
     /\ dockerExited = {}
     /\ \A i \in 1..Len(modelRoutes) : modelRoutes[i].kind = "comment"

\* C20: the max_tokens value a chat request carries never exceeds
\* floor(W/2), W being the selected model's max_model_len.
C20_MaxTokensAtMostHalfWindow ==
  request.sent => request.max_tokens <= request.W \div 2

\* C21: the truncation loop removes only the oldest remaining non-system
\* message, so a truncated request still holds the system message first and
\* the newest user message last, and the loop has stopped with estimated
\* tokens + requested max_tokens + 50 <= W or with exactly two messages left.
C21_LoopStopsAtWindowOrTwo ==
  (request.sent /\ contextTruncated) =>
    LET fwd == request.messages
    IN  /\ TruncatedShape(request)
        /\ fwd[Len(fwd)] = request.all[Len(request.all)]
        /\ \/ estimateTokens(fwd) + request.requested + 50 <= request.W
           \/ Len(fwd) = 2

\* C22: a record becomes running only once readiness has been confirmed: a
\* model whose deploy was still in flight when a pass started (status
\* deploying, readiness not yet confirmed) is not recorded as running by
\* that pass.
C22_NotRunningBeforeReady ==
  pass.done =>
    \A a \in Abbrs :
      (pass.before[a].exists /\ pass.before[a].status = "deploying")
      => ~(redisModel[a].exists /\ redisModel[a].status = "running")

\* C30: after a pass, gpu_assignment:{abbr} exists exactly when model:{abbr}
\* exists, and its value is that record's gpu_device.
C30_GpuAssignmentMatchesRecord ==
  pass.done =>
    \A a \in Abbrs :
      /\ (redisGpu[a] # "nil") <=> redisModel[a].exists
      /\ redisModel[a].exists => redisGpu[a] = redisModel[a].gpu_device

\* C28: every accepted send ends with loading false and the abort
\* controller cleared.  The only code that resets loading is the finally
\* block of handleStreamingResponse, which runs for a request that entered
\* the try; so while loading is true such a request must be in progress,
\* including when the selected model was not in the list at send time.
C28_LoadingHasRequestInProgress ==
  loading => (request.sent /\ abortController)

\* ------------------------------------------------- ModelManager properties
\* The status the page shows for abbr on one of its cards, "" when no card
\* for abbr is on screen.
DisplayedAs(m, abbr, status) ==
  \E model \in Cards(m) : model.abbr = abbr /\ model.status = status

\* C24: a start request goes out only for a model the page shows as
\* stopped at that moment, a stop request only for one it shows as running;
\* so none goes out for a model shown as deploying or error.
C24_StartStopMatchDisplayedStatus ==
  [][ /\ (manager'.startingModel # <<>>
          /\ manager'.startingModel # manager.startingModel)
        => DisplayedAs(manager, manager'.startingModel, "stopped")
      /\ (manager'.stoppingModel # <<>>
          /\ manager'.stoppingModel # manager.stoppingModel)
        => DisplayedAs(manager, manager'.stoppingModel, "running") ]_vars
\* A start request is in flight for a model shown as stopped while a stop
\* request is in flight for one shown as running.
C24_Witness ==
  /\ manager.mounted
  /\ manager.startingModel # <<>> /\ manager.stoppingModel # <<>>
  /\ \E i \in 1..Len(manager.models) :
       manager.models[i].status \in {"deploying", "error"}

\* C26: no deploy request goes out for an abbr that has a record in the
\* model list the page holds.
C26_NoDeployForListedAbbr ==
  [][ (manager'.deploying /\ ~manager.deploying)
        => ~\E i \in 1..Len(manager.models) :
              manager.models[i].abbr = manager.selectedModel ]_vars

\* C29: the current page lies between 1 and max(1, totalPages).
C29_CurrentPageInRange ==
  manager.mounted =>
    /\ 1 <= manager.currentPage
    /\ manager.currentPage <=
         (IF totalPages(manager) > 1 THEN totalPages(manager) ELSE 1)

\* ------------------------------------------------ ApiKeyManager properties
\* C25: the delete action on a listed key sends DELETE /api-keys/{id} with
\* id the prefix of that key, and the key is then gone from the store.
C25_DeleteSendsPrefixOfChosenKey ==
  (keyPage.mounted /\ keyPage.sent.method = "DELETE") =>
    /\ keyPage.sent.id = keyPage.sent.chosen.prefix
    /\ \A k \in keyPage.store : PrefixOf(k) # keyPage.sent.chosen.prefix

\* ------------------------------------------------------- stream properties
\* C23: however the body is split into read chunks, when the stream ends
\* the assistant message's content is the in-order concatenation of the
\* delta contents of the data frames before data: [DONE].
C23_ContentIsConcatenationOfDeltas ==
  (stream.mounted /\ stream.done) => stream.content = stream.contents

\* ------------------------------------------------------ session properties
\* C27: when a timer's callback logs the user out, the session active at
\* that moment has reached its expiry time.
C27_AutoLogoutNotBeforeExpiry ==
  [][ (isAuthenticated /\ ~isAuthenticated' /\ ~authLoading'
       /\ timers' # timers)
        => /\ localStorage.token_expires # Null
           /\ parseInt(localStorage.token_expires) <= clock ]_vars

====
